---------------------------- MODULE Spec2Model ----------------------------
(***************************************************************************)
(* A model of the SecureDownloadsOrchestrator ingestion pipeline:          *)
(*   orchestrator.py       retry_operation, safe_file_operation,           *)
(*                         process_new_file, process_existing_files        *)
(*   modules/extract.py    safe_extract_path, extract_archives             *)
(*   modules/organize.py   sanitize_filename, is_springfield_file,         *)
(*                         organize_file                                   *)
(*   modules/monitor.py    Handler._handle_file_event                      *)
(*                                                                         *)
(* Each subsystem has its own specification over its own variables; the    *)
(* variables of the other subsystems keep their initial values.            *)
(*   SpecRetry     retry_operation applied to a scripted operation         *)
(*   SpecExtract   the entry loops of extract_archives                     *)
(*   SpecOrganize  organize_file over a watch directory and a tree         *)
(*   Spec          process_new_file: scan, extraction, recursion, placing  *)
(*   SpecMonitor   startup scan and live events around the callback        *)
(*   SpecWorkers   process_new_file called by several threads              *)
(*   SpecScan      scan_file (modules/antivirus.py)                        *)
(*   SpecKeyword   the keyword rule of the category choice                 *)
(*   SpecPlace     one call of organize_file on a populated tree           *)
(*   SpecCalls     the call tree of one task of process_new_file; with     *)
(*                 weak fairness of its steps, SpecCallsFair               *)
(***************************************************************************)
EXTENDS Integers, Sequences, FiniteSets, TLC

VARIABLES
    \* ---- retry_operation (SpecRetry)
    rScript,          \* what the operation does on its 1st, 2nd, ... call
    rOut,             \* the finished run of retry_operation on rScript
    \* ---- extract_archives entry loop (SpecExtract)
    xKind,            \* "zip" or "tar"
    xTarFilter,       \* the interpreter's default tarfile extraction filter
    xCount,           \* manifest entries consumed so far
    files_extracted,  \* extract.py:173
    total_size,       \* extract.py:174
    xStopped,         \* the loop has hit `break`
    xLast,            \* the last entry considered and what happened to it
    xInside,          \* files written under extract_to
    xOutside,         \* files written outside extract_to
    xReturned,        \* the list extract_archives returned
    \* ---- organize_file (SpecOrganize)
    oWatch,           \* the files now in the watch directory
    oDropped,         \* the files that have arrived so far
    oTree,            \* the organized tree: destination path and content
    oRet,             \* per file, what the last organize_file call returned
    oCalls,           \* organize_file calls made so far
    oLast,            \* the last call: its file, the branch taken, tree untouched
    \* ---- process_new_file (Spec)
    stack,            \* the call stack of process_new_file, innermost last
    depth,            \* process_new_file._extraction_depth
    clock,            \* int(time.time()) at its last reading
    pPresent,         \* source paths that exist (watch and extraction dirs)
    pDirs,            \* extraction directories that exist under tmp_unzip
    pTree,            \* the organized tree
    pQuar,            \* paths moved into the quarantine directory
    pExtractLog,      \* every invocation of extract_archives
    pTasks,           \* watch paths submitted as top-level tasks so far
    pDone,            \* watch paths whose top-level task has finished
    pCleared,         \* paths for which a scan came back clean
    pWorked,          \* paths handed to extraction or organization
    pMeta,            \* metadata recordings: the path, and whether every attempt raised
    pStart,           \* watch paths that were missing or unreadable when submitted
    pScanned,         \* paths on which scan_file was invoked
    \* ---- process_existing_files and the monitor's Handler (SpecMonitor)
    mKind,            \* per name in the watch directory: what is there
    mPhase,           \* "startup" (process_existing_files) or "live"
    mIdx,             \* position of the startup loop in the sorted listing
    mScanCalled,      \* names the startup loop passed to process_new_file
    mScanRaised,      \* names whose processing raised during startup
    error_count,      \* orchestrator.py:249
    processed_files,  \* Handler.processed_files
    mAlive,           \* the observer thread that dispatches events is running
    mEvents,          \* live events delivered so far
    mLiveCalled,      \* names the handler passed to the callback
    mLiveRaised,      \* names whose processing raised in live mode
    mCalledAfterRaise, \* the callback ran for an event after another had raised
    mScanOrder,       \* names passed to process_new_file at startup, in call order
    mCycleCalls,      \* per name: callback runs since the handler last accepted it
    mLast,            \* the last event handled: its path, what the handler saw and did
    \* ---- process_new_file called by several threads (SpecWorkers)
    wDepth,           \* process_new_file._extraction_depth, one per process
    wPc,              \* per worker: where its innermost frame stands
    wLocal,           \* per worker: current_depth as read by the innermost frame
    wSaved,           \* per worker: current_depth of each frame inside its loop
    wRefused,         \* workers whose archive met "Maximum extraction depth reached"
    \* ---- scan_file (SpecScan)
    sFile,            \* the file handed to scan_file
    sEnv,             \* the configuration and what the scanner's tools do
    sOut,             \* the finished call: result and where the file is
    \* ---- the keyword rule (SpecKeyword)
    kName,            \* the file's base name, character by character
    kConfig,          \* config['content_organization']: the groups in order
    kOut,             \* the finished call and its result
    \* ---- one call of organize_file on a populated tree (SpecPlace)
    gTree,            \* the organized tree before the call
    gSrc,             \* the content of the incoming file
    gEnv,             \* what the environment does to the call
    gOut,             \* the finished call: what organize_file returned and left
    \* ---- the call tree of one task of process_new_file (SpecCalls)
    cStack,           \* the frames of process_new_file, innermost last
    cDepth,           \* process_new_file._extraction_depth
    cScans,           \* invocations of scan_file on the task's own file
    cExc,             \* an exception is propagating out of the innermost frame
    cEnd              \* how the last finished task ended: "none", "returned",
                      \* "raised", or "raised_in_loop" (the exception left the
                      \* outermost frame from inside its loop)

retryVars   == <<rScript, rOut>>
extractVars == <<xKind, xTarFilter, xCount, files_extracted, total_size,
                 xStopped, xLast, xInside, xOutside, xReturned>>
orgVars     == <<oWatch, oDropped, oTree, oRet, oCalls, oLast>>
pipeVars    == <<stack, depth, clock, pPresent, pDirs, pTree, pQuar,
                 pExtractLog, pTasks, pDone,
                 pCleared, pWorked, pMeta, pStart, pScanned>>
monVars     == <<mKind, mPhase, mIdx, mScanCalled, mScanRaised, error_count,
                 processed_files, mAlive, mEvents, mLiveCalled, mLiveRaised,
                 mCalledAfterRaise,
                mScanOrder, mCycleCalls, mLast>>
workVars    == <<wDepth, wPc, wLocal, wSaved, wRefused>>
scanVars    == <<sFile, sEnv, sOut>>
keyVars     == <<kName, kConfig, kOut>>
placeVars   == <<gTree, gSrc, gEnv, gOut>>
callVars    == <<cStack, cDepth, cScans, cExc, cEnd>>
vars        == <<retryVars, extractVars, orgVars, pipeVars, monVars, workVars,
                 scanVars, keyVars, placeVars, callVars>>

otherThanRetry    == <<extractVars, orgVars, pipeVars, monVars, workVars,
                      scanVars, keyVars, placeVars,
                      callVars>>
otherThanExtract  == <<retryVars, orgVars, pipeVars, monVars, workVars,
                      scanVars, keyVars, placeVars,
                      callVars>>
otherThanOrganize == <<retryVars, extractVars, pipeVars, monVars, workVars,
                      scanVars, keyVars, placeVars,
                      callVars>>
otherThanPipeline == <<retryVars, extractVars, orgVars, monVars, workVars,
                      scanVars, keyVars, placeVars,
                      callVars>>
otherThanWorkers  == <<retryVars, extractVars, orgVars, pipeVars, monVars,
                      scanVars, keyVars, placeVars,
                      callVars>>
otherThanScan     == <<retryVars, extractVars, orgVars, pipeVars, monVars,
                      workVars, keyVars, placeVars,
                      callVars>>
otherThanKeyword  == <<retryVars, extractVars, orgVars, pipeVars, monVars,
                      workVars, scanVars, placeVars,
                      callVars>>
otherThanMonitor  == <<retryVars, extractVars, orgVars, pipeVars, workVars,
                      scanVars, keyVars, placeVars,
                      callVars>>
otherThanPlace    == <<retryVars, extractVars, orgVars, pipeVars, monVars,
                      workVars, scanVars, keyVars, callVars>>
otherThanCalls    == <<retryVars, extractVars, orgVars, pipeVars, monVars,
                      workVars, scanVars, keyVars, placeVars>>

None == "None"

\* ======================================================================
\* orchestrator.py: retry configuration and retry_operation
\* ======================================================================
MAX_RETRIES == 3
RETRY_DELAY_BASE == 1
RETRY_BACKOFF_MULTIPLIER == 2

\* Length of the scripts that describe an operation's successive calls;
\* longer than MAX_RETRIES, so that an extra invocation would be visible.
MaxCalls == 4

RECURSIVE Pow(_, _)
Pow(b, n) == IF n = 0 THEN 1 ELSE b * Pow(b, n - 1)

\* The values an operation may return, and "raise" for a raised exception.
RetryValues == {"clean", "error"}
CallOutcomes == RetryValues \cup {"raise"}

RECURSIVE SeqsOfLen(_, _)
SeqsOfLen(S, n) ==
    IF n = 0 THEN {<<>>}
    ELSE {Append(s, x) : s \in SeqsOfLen(S, n - 1), x \in S}

Scripts == SeqsOfLen(CallOutcomes, MaxCalls)

\* A mutated loop: `range(MAX_RETRIES + 1)`.
RECURSIVE RetryLoopOffByOne(_, _, _)
RetryLoopOffByOne(script, attempt, slept) ==
    IF attempt >= MAX_RETRIES + 1
    THEN [result |-> None, calls |-> attempt, slept |-> slept]
    ELSE IF script[attempt + 1] # "raise"
    THEN [result |-> script[attempt + 1], calls |-> attempt + 1, slept |-> slept]
    ELSE RetryLoopOffByOne(script, attempt + 1,
            IF attempt < MAX_RETRIES
            THEN Append(slept, RETRY_DELAY_BASE * Pow(RETRY_BACKOFF_MULTIPLIER, attempt))
            ELSE slept)

\* A mutated loop: the sleep is not skipped after the last attempt.
RECURSIVE RetryLoopSleepAlways(_, _, _)
RetryLoopSleepAlways(script, attempt, slept) ==
    IF attempt >= MAX_RETRIES
    THEN [result |-> None, calls |-> attempt, slept |-> slept]
    ELSE IF script[attempt + 1] # "raise"
    THEN [result |-> script[attempt + 1], calls |-> attempt + 1, slept |-> slept]
    ELSE RetryLoopSleepAlways(script, attempt + 1,
            Append(slept, RETRY_DELAY_BASE * Pow(RETRY_BACKOFF_MULTIPLIER, attempt)))

\* The loop of retry_operation from iteration `attempt` on: the operation is
\* invoked; a returned value ends the loop; an exception sleeps
\* RETRY_DELAY_BASE * RETRY_BACKOFF_MULTIPLIER ** attempt unless this was the
\* last attempt; after MAX_RETRIES attempts the function returns None.
RECURSIVE RetryLoop(_, _, _)
RetryLoop(script, attempt, slept) ==
    IF attempt >= MAX_RETRIES
    THEN [result |-> None, calls |-> attempt, slept |-> slept]
    ELSE IF script[attempt + 1] # "raise"
    THEN [result |-> script[attempt + 1], calls |-> attempt + 1, slept |-> slept]
    ELSE RetryLoop(script, attempt + 1,
            IF attempt < MAX_RETRIES - 1
            THEN Append(slept, RETRY_DELAY_BASE * Pow(RETRY_BACKOFF_MULTIPLIER, attempt))
            ELSE slept)

retry_operation(script) == RetryLoop(script, 0, <<>>)

RetryIdle == [done |-> FALSE, result |-> None, calls |-> 0, slept |-> <<>>]

IdleScript == [i \in 1..MaxCalls |-> "raise"]

InitRetry ==
    /\ rScript \in Scripts
    /\ rOut = RetryIdle

IdleRetry ==
    /\ rScript = IdleScript
    /\ rOut = RetryIdle

\* retry_operation is called on an operation that behaves as rScript says.
RetryCall ==
    /\ ~rOut.done
    /\ rOut' = [done |-> TRUE] @@ retry_operation(rScript)
    /\ UNCHANGED rScript
    /\ UNCHANGED otherThanRetry

\* The caller hands retry_operation another operation.
RetryNewOperation ==
    /\ rOut.done
    /\ rScript' \in Scripts
    /\ rOut' = RetryIdle
    /\ UNCHANGED otherThanRetry

\* ======================================================================
\* modules/extract.py: paths, safe_extract_path, the zip and tar loops
\* ======================================================================
\* A path is its components and whether it is absolute.
Rel(parts) == [abs |-> FALSE, parts |-> parts]
Abs(parts) == [abs |-> TRUE, parts |-> parts]
NoPath == Rel(<<>>)          \* stands for Python's None where a path is expected

\* os.path.normpath on the components: ".." removes the component before it,
\* stays in front of a relative path and is dropped at the root.
RECURSIVE NormParts(_, _, _)
NormParts(parts, acc, isabs) ==
    IF parts = <<>> THEN acc
    ELSE LET c == Head(parts) IN
         IF c = ".."
         THEN IF Len(acc) > 0 /\ acc[Len(acc)] # ".."
              THEN NormParts(Tail(parts), SubSeq(acc, 1, Len(acc) - 1), isabs)
              ELSE IF isabs
                   THEN NormParts(Tail(parts), acc, isabs)
                   ELSE NormParts(Tail(parts), Append(acc, ".."), isabs)
         ELSE NormParts(Tail(parts), Append(acc, c), isabs)

NormPath(p) == [abs |-> p.abs, parts |-> NormParts(p.parts, <<>>, p.abs)]

\* os.path.join: an absolute second argument replaces the first.
JoinPath(base, p) ==
    IF p.abs THEN p ELSE [abs |-> base.abs, parts |-> base.parts \o p.parts]

\* full.startswith(root + os.sep)
StrictlyUnder(root, full) ==
    /\ full.abs = root.abs
    /\ Len(full.parts) > Len(root.parts)
    /\ SubSeq(full.parts, 1, Len(root.parts)) = root.parts

safe_extract_path(extract_to, member_path) ==
    LET root == NormPath(extract_to)
        m    == NormPath(member_path)
        rel  == IF m.abs THEN [abs |-> FALSE, parts |-> m.parts] ELSE m
        full == NormPath(JoinPath(root, rel))
    IN  IF ~StrictlyUnder(root, full) /\ full # root THEN NoPath ELSE full

\* Where zf.extract(info, extract_to) writes: zipfile drops the "" , "." and
\* ".." components of the member name and joins the rest to the target.
ZipTarget(extract_to, name) ==
    NormPath(JoinPath(extract_to,
        Rel(SelectSeq(name.parts, LAMBDA c : c # ".."))))

\* Where tf.extract(member, extract_to) writes. Without an extraction filter
\* ("fully_trusted", the default up to Python 3.13) the name is joined as it
\* is, so an absolute name replaces the target directory. With the "data"
\* filter (the default from Python 3.14) the leading separator is stripped
\* and a name that still leaves the target raises (NoPath).
TarTarget(filter, extract_to, name) ==
    IF filter = "fully_trusted"
    THEN NormPath(JoinPath(extract_to, name))
    ELSE LET full == NormPath(JoinPath(extract_to, Rel(name.parts)))
         IN  IF StrictlyUnder(extract_to, full) THEN full ELSE NoPath

\* The isolated directory of the run under study.
ExtractTo == Abs(<<"tmp_unzip", "extract_1">>)

\* Extraction limits: config.get('max_extraction_files', 10000),
\* config.get('max_extraction_size', 10 GB), config.get('max_compression_ratio',
\* 100), scaled down.
max_files == 2
max_size == 6
max_compression_ratio == 2
\* Entries one run may consume.
MaxEntries == 3

EntryNames ==
    { Rel(<<"a">>),               \* a
      Rel(<<"b", "..", "a">>),    \* b/../a
      Rel(<<"..", "a">>),         \* ../a
      Abs(<<"a">>) }              \* /a
FileSizes == {0, 1, 4, 5}
CompressSizes == {0, 1, 2}
Entries ==
    [filename : EntryNames, file_size : FileSizes, compress_size : CompressSizes]

\* An entry name that escapes the extraction root: absolute, or relative with
\* parent-directory segments that lead out of the target.
Escapes(name) ==
    \/ name.abs
    \/ LET n == NormParts(name.parts, <<>>, FALSE)
       IN  Len(n) > 0 /\ n[1] = ".."

\* A mutated ratio test: integer division (`//`) instead of `/`.
RatioExceedsFloorDiv(info) ==
    (info.file_size \div info.compress_size) > max_compression_ratio

\* ratio = info.file_size / info.compress_size; ratio > max_compression_ratio
\* (true division, compress_size > 0).
RatioExceeds(info) ==
    info.file_size > max_compression_ratio * info.compress_size

\* One iteration of `for info in zf.infolist()` (extract.py:181-210), given
\* the counters and whether zf.extract succeeds.
ZipBody(files, size, info, extract_ok) ==
    IF files >= max_files
    THEN [outcome |-> "stop_files", wrote |-> NoPath]
    ELSE IF size + info.file_size > max_size
    THEN [outcome |-> "stop_size", wrote |-> NoPath]
    ELSE IF info.compress_size > 0 /\ RatioExceeds(info)
    THEN [outcome |-> "skip_ratio", wrote |-> NoPath]
    ELSE IF safe_extract_path(ExtractTo, info.filename) = NoPath
    THEN [outcome |-> "skip_path", wrote |-> NoPath]
    ELSE IF extract_ok
    THEN [outcome |-> "extracted", wrote |-> ZipTarget(ExtractTo, info.filename)]
    ELSE [outcome |-> "failed", wrote |-> NoPath]

\* One iteration of `for member in tf` (extract.py:217-239).
TarBody(files, size, member, extract_ok, filter) ==
    IF files >= max_files
    THEN [outcome |-> "stop_files", wrote |-> NoPath]
    ELSE IF size + member.file_size > max_size
    THEN [outcome |-> "stop_size", wrote |-> NoPath]
    ELSE IF safe_extract_path(ExtractTo, member.filename) = NoPath
    THEN [outcome |-> "skip_path", wrote |-> NoPath]
    ELSE IF extract_ok /\ TarTarget(filter, ExtractTo, member.filename) # NoPath
    THEN [outcome |-> "extracted",
          wrote |-> TarTarget(filter, ExtractTo, member.filename)]
    ELSE [outcome |-> "failed", wrote |-> NoPath]

NoEntry == [seen |-> FALSE, entry |-> [filename |-> NoPath, file_size |-> 0,
            compress_size |-> 0], outcome |-> "none", wrote |-> NoPath,
            files_before |-> 0, size_before |-> 0]

IdleExtract ==
    /\ xKind = "zip"
    /\ xTarFilter = "fully_trusted"
    /\ xCount = 0
    /\ files_extracted = 0
    /\ total_size = 0
    /\ xStopped = FALSE
    /\ xLast = NoEntry
    /\ xInside = {}
    /\ xOutside = {}
    /\ xReturned = [done |-> FALSE, files |-> {}]

\* extract_archives starts on a zip or a tar archive, in a fresh directory,
\* under an interpreter with either tarfile default.
InitExtract ==
    /\ xKind \in {"zip", "tar"}
    /\ xTarFilter \in {"fully_trusted", "data"}
    /\ xCount = 0
    /\ files_extracted = 0
    /\ total_size = 0
    /\ xStopped = FALSE
    /\ xLast = NoEntry
    /\ xInside = {}
    /\ xOutside = {}
    /\ xReturned = [done |-> FALSE, files |-> {}]

\* The effect of one loop iteration on the state.
ApplyBody(e, r) ==
    /\ xCount' = xCount + 1
    /\ xLast' = [seen |-> TRUE, entry |-> e, outcome |-> r.outcome,
                 wrote |-> r.wrote, files_before |-> files_extracted,
                 size_before |-> total_size]
    /\ xStopped' = (r.outcome \in {"stop_files", "stop_size"})
    /\ files_extracted' =
          IF r.outcome = "extracted" THEN files_extracted + 1 ELSE files_extracted
    /\ total_size' =
          IF r.outcome = "extracted" THEN total_size + e.file_size ELSE total_size
    /\ xInside' = IF r.wrote # NoPath /\ StrictlyUnder(ExtractTo, r.wrote)
                  THEN xInside \cup {r.wrote} ELSE xInside
    /\ xOutside' = IF r.wrote # NoPath /\ ~StrictlyUnder(ExtractTo, r.wrote)
                   THEN xOutside \cup {r.wrote} ELSE xOutside
    /\ UNCHANGED <<xKind, xTarFilter, xReturned>>

ZipEntry ==
    /\ xKind = "zip" /\ ~xReturned.done /\ ~xStopped /\ xCount < MaxEntries
    /\ \E info \in Entries, ok \in BOOLEAN :
          ApplyBody(info, ZipBody(files_extracted, total_size, info, ok))
    /\ UNCHANGED otherThanExtract

TarEntry ==
    /\ xKind = "tar" /\ ~xReturned.done /\ ~xStopped /\ xCount < MaxEntries
    /\ \E member \in Entries, ok \in BOOLEAN :
          ApplyBody(member,
                    TarBody(files_extracted, total_size, member, ok, xTarFilter))
    /\ UNCHANGED otherThanExtract

\* The manifest is exhausted or the loop has stopped: os.walk(extract_to)
\* collects the regular files under the directory (extract.py:282-299).
ExtractReturn ==
    /\ ~xReturned.done
    /\ xReturned' = [done |-> TRUE, files |-> xInside]
    /\ UNCHANGED <<xKind, xTarFilter, xCount, files_extracted, total_size,
                   xStopped, xLast, xInside, xOutside>>
    /\ UNCHANGED otherThanExtract


\* ======================================================================
\* modules/organize.py: sanitize_filename, is_springfield_file, organize_file
\* ======================================================================
\* A file name is a stem, a sequence of tokens, and an extension. Tokens
\* stand for runs of characters; a pattern occurs in a name when one of the
\* name's tokens, lower-cased, is the pattern.
FileName(stem, ext) == [stem |-> stem, ext |-> ext]
NoName == FileName(<<>>, "")

\* str.lower() on a token.
Lower(t) ==
    CASE t = "HOMER" -> "homer"
      [] t = "Bart"  -> "bart"
      [] t = ".JPG"  -> ".jpg"
      [] t = ".TXT"  -> ".txt"
      [] OTHER       -> t

problematic_chars == {"<", ">", ":", "\"", "|", "?", "*", "\\", "/"}

\* Runs of underscores collapse into one underscore.
RECURSIVE CollapseUnderscores(_)
CollapseUnderscores(stem) ==
    IF Len(stem) < 2 THEN stem
    ELSE IF stem[1] = "_" /\ stem[2] = "_"
         THEN CollapseUnderscores(Tail(stem))
         ELSE <<stem[1]>> \o CollapseUnderscores(Tail(stem))

\* sanitize_filename on names without control characters, surrounding dots
\* or blanks, reserved device names or over-long stems: every problematic
\* character becomes "_" and runs of "_" collapse.
sanitize_filename(name) ==
    FileName(
        CollapseUnderscores(
            [i \in 1..Len(name.stem) |->
                IF name.stem[i] \in problematic_chars THEN "_" ELSE name.stem[i]]),
        name.ext)

springfield_patterns ==
    {"springfield", "spring_field", "spring-field", "simpsons", "homer",
     "marge", "bart", "lisa", "maggie"}

\* pattern in os.path.basename(filepath).lower(), for some pattern
is_springfield_file(name) ==
    \/ \E i \in 1..Len(name.stem) : Lower(name.stem[i]) \in springfield_patterns
    \/ \E pat \in springfield_patterns : Lower(name.ext) = "." \o pat

IMAGE_EXTENSIONS ==
    {".png", ".jpg", ".jpeg", ".tiff", ".tif", ".bmp", ".gif", ".webp", ".svg",
     ".ico", ".raw", ".heic", ".heif", ".cr2", ".nef", ".arw", ".dng"}
ARCHIVE_EXTENSIONS == {".zip", ".rar", ".7z", ".tar", ".gz", ".bz2", ".xz"}
DOCUMENT_EXTENSIONS ==
    {".pdf", ".doc", ".docx", ".xls", ".xlsx", ".ppt", ".pptx", ".txt", ".rtf",
     ".odt"}
VIDEO_EXTENSIONS == {".mp4", ".avi", ".mkv", ".mov", ".wmv", ".flv", ".webm", ".m4v"}
AUDIO_EXTENSIONS == {".mp3", ".wav", ".flac", ".aac", ".ogg", ".wma", ".m4a"}

\* The folder of the default rule: <sender>/<date> from the text found in the
\* file, "Unsorted" when text extraction raises.
DefaultDir(text_ok) ==
    IF text_ok THEN "UnknownSender/UnknownDate" ELSE "Unsorted"

\* A mutated rule order: the keyword rule is tried before the image rule.
categorize_KeywordFirst(name, text_ok) ==
    LET ext == Lower(sanitize_filename(name).ext) IN
    IF is_springfield_file(name) THEN "Springfield"
    ELSE IF ext \in IMAGE_EXTENSIONS THEN "Photos"
    ELSE IF ext \in ARCHIVE_EXTENSIONS THEN "Archives"
    ELSE IF ext \in DOCUMENT_EXTENSIONS THEN "Documents"
    ELSE IF ext \in VIDEO_EXTENSIONS THEN "Videos"
    ELSE IF ext \in AUDIO_EXTENSIONS THEN "Audio"
    ELSE DefaultDir(text_ok)

\* The rule chain of organize_file (organize.py:264-312): the first rule
\* that matches decides dest_dir.
categorize(name, text_ok) ==
    LET ext == Lower(sanitize_filename(name).ext) IN
    IF ext \in IMAGE_EXTENSIONS THEN "Photos"
    ELSE IF is_springfield_file(name) THEN "Springfield"
    ELSE IF ext \in ARCHIVE_EXTENSIONS THEN "Archives"
    ELSE IF ext \in DOCUMENT_EXTENSIONS THEN "Documents"
    ELSE IF ext \in VIDEO_EXTENSIONS THEN "Videos"
    ELSE IF ext \in AUDIO_EXTENSIONS THEN "Audio"
    ELSE DefaultDir(text_ok)

\* A content is its SHA-256 digest: the first eight hex digits, which go into
\* the destination name, and the whole digest.
Content(pre, full) == [pre |-> pre, full |-> full]
file_hash(content) == content.full
HashPrefix(content) == content.pre

\* A destination path: folder, hash prefix, sanitized name, numeric suffix
\* (0: none).
Dest(dir, pre, name, k) == [dir |-> dir, pre |-> pre, name |-> name, k |-> k]
NoDest == Dest("", "", NoName, 0)

DestExists(tree, dest) == \E e \in tree : e.dest = dest
ContentAt(tree, dest) == (CHOOSE e \in tree : e.dest = dest).content

\* `while counter < 1000` (organize.py:378), scaled down: the suffixes tried
\* are _1 .. _(SuffixCeiling - 1).
SuffixCeiling == 3

\* What the environment does to one call of organize_file.
\*   vanished    the source was deleted before the call (os.path.exists fails)
\*   readable    os.access(filepath, os.R_OK)
\*   text        "ok" | "raise"           text extraction in the default rule
\*   mkdir       "ok" | "fallback" | "fail"   safe_makedirs on dest_dir / Unsorted
\*   dup_remove  "ok" | "fail"            os.remove of a duplicate source
\*   move        "ok" | "perm_fixed" | "perm_fail" | "copy_ok" |
\*               "copy_rmfail" | "copy_fail" | "other" | "ok_recreated"
\*               (the move succeeded and a file is at the source path
\*               again when the function looks)
\*   dest_hash   "ok" | "fallback"        file_hash of the existing destination
OkEnv == [vanished |-> FALSE, readable |-> TRUE, text |-> "ok", mkdir |-> "ok",
          dup_remove |-> "ok", move |-> "ok", dest_hash |-> "ok"]
MoveOutcomes ==
    {"ok", "perm_fixed", "perm_fail", "copy_ok", "copy_rmfail", "copy_fail", "other"}
OrgEnvs ==
    {[OkEnv EXCEPT !.move = m] : m \in MoveOutcomes}
    \cup {[OkEnv EXCEPT !.vanished = TRUE], [OkEnv EXCEPT !.mkdir = "fallback"],
          [OkEnv EXCEPT !.readable = FALSE], [OkEnv EXCEPT !.text = "raise"],
          [OkEnv EXCEPT !.mkdir = "fail"], [OkEnv EXCEPT !.dup_remove = "fail"],
          [OkEnv EXCEPT !.dup_remove = "fail", !.mkdir = "fallback"]}

\* A mutated probe: the last free suffixed name is taken.
FreeSuffix_Last(tree, dest) ==
    LET free == {k \in 1..(SuffixCeiling - 1) : ~DestExists(tree, [dest EXCEPT !.k = k])}
    IN  IF free = {} THEN 0 ELSE CHOOSE k \in free : \A j \in free : k >= j

\* The first free suffixed name (organize.py:376-388); 0 when none is free.
FreeSuffix(tree, dest) ==
    LET free == {k \in 1..(SuffixCeiling - 1) : ~DestExists(tree, [dest EXCEPT !.k = k])}
    IN  IF free = {} THEN 0 ELSE CHOOSE k \in free : \A j \in free : k <= j

\* The move block (organize.py:394-435): whether the destination holds the
\* file afterwards, whether the source is gone, and whether the function
\* got as far as the final verification.
MoveEffect(move) ==
    CASE move \in {"ok", "perm_fixed", "copy_ok"} ->
            [placed |-> TRUE, src_gone |-> TRUE, verified |-> TRUE]
      [] move = "ok_recreated" ->
            [placed |-> TRUE, src_gone |-> FALSE, verified |-> TRUE]
      [] move = "copy_rmfail" ->
            [placed |-> TRUE, src_gone |-> FALSE, verified |-> FALSE]
      [] OTHER ->
            [placed |-> FALSE, src_gone |-> FALSE, verified |-> FALSE]

\* branch: "early" (a check before the destination is computed failed),
\* "duplicate" (organize.py:350-373) or "move" (organize.py:374-435).
OrgResult(branch, ret, cat, tree, src_gone) ==
    [branch |-> branch, ret |-> ret, cat |-> cat, tree |-> tree,
     src_gone |-> src_gone]

\* A mutated duplicate branch: the existing path is returned, the source is
\* not removed.
DuplicateOutcome_KeepSource(dest_path, cat, tree, dup_remove) ==
    OrgResult("duplicate", dest_path, cat, tree, FALSE)

\* The confirmed-duplicate branch (organize.py:357-373): os.remove(filepath),
\* once more after chmod on PermissionError; the function returns dest_path
\* when the source is removed and None when it cannot be.
DuplicateOutcome(dest_path, cat, tree, dup_remove) ==
    IF dup_remove = "ok"
    THEN OrgResult("duplicate", dest_path, cat, tree, TRUE)
    ELSE OrgResult("duplicate", NoDest, cat, tree, FALSE)

\* A mutated verification: the result of the move is not looked at.
MoveVerified_Skipped(eff) == TRUE

\* organize.py:430-435: os.path.exists(dest_path) and not
\* os.path.exists(filepath).
MoveVerified(eff) == eff.placed /\ eff.src_gone

\* file_hash of the file at the destination (organize.py:124-166): the
\* SHA-256 digest of its content, or, when the file cannot be read, the
\* digest of its path and modification time, which is no content's digest.
ExistingHash(tree, dest_path, dest_hash) ==
    IF dest_hash = "ok" THEN file_hash(ContentAt(tree, dest_path)) ELSE "mtime"

\* A mutated duplicate test: the eight digits of the name are compared.
IsDuplicate_PrefixOnly(tree, dest_path, content, dest_hash) ==
    /\ DestExists(tree, dest_path)
    /\ HashPrefix(ContentAt(tree, dest_path)) = HashPrefix(content)

\* organize.py:350-356: os.path.exists(dest_path) and
\* file_hash(dest_path) == hash_val.
IsDuplicate(tree, dest_path, content, dest_hash) ==
    /\ DestExists(tree, dest_path)
    /\ ExistingHash(tree, dest_path, dest_hash) = file_hash(content)

\* organize_file(filepath, config) for a source with the given name and
\* content: the path returned (NoDest for None), the category the rules
\* chose, the organized tree afterwards and whether the source is gone.
organize_file(exists, name, content, tree, env) ==
    IF ~exists \/ ~env.readable THEN OrgResult("early", NoDest, "", tree, FALSE)
    ELSE
    LET safe_base_name == sanitize_filename(name)
        hash_val == file_hash(content)
        cat      == categorize(name, env.text = "ok")
        dest_dir == IF env.mkdir = "ok" THEN cat ELSE "Unsorted"
        dest_path == Dest(dest_dir, HashPrefix(content), safe_base_name, 0)
    IN
    IF env.mkdir = "fail" THEN OrgResult("early", NoDest, cat, tree, FALSE)
    ELSE IF IsDuplicate(tree, dest_path, content, env.dest_hash)
    THEN DuplicateOutcome(dest_path, cat, tree, env.dup_remove)
    ELSE
    LET k == IF DestExists(tree, dest_path) THEN FreeSuffix(tree, dest_path) ELSE 0
        target == [dest_path EXCEPT !.k = k]
        eff == MoveEffect(env.move)
        tree2 == IF eff.placed
                 THEN tree \cup {[dest |-> target, content |-> content]}
                 ELSE tree
    IN
    IF DestExists(tree, dest_path) /\ k = 0
    THEN OrgResult("move", NoDest, cat, tree, FALSE)
    ELSE IF eff.verified /\ MoveVerified(eff)
    THEN OrgResult("move", target, cat, tree2, eff.src_gone)
    ELSE OrgResult("move", NoDest, cat, tree2, eff.src_gone)

\* ---- the files of SpecOrganize
ContentA == Content("aaaaaaaa", "A")
ContentB == Content("aaaaaaaa", "B")       \* same eight digits as A
ContentC == Content("cccccccc", "C")

OrgFiles == 1..6
NameOf(f) ==
    CASE f = 1 -> FileName(<<"dup", "_", "1">>, ".txt")
      [] f = 2 -> FileName(<<"dup", "_", "2">>, ".txt")
      [] f = 3 -> FileName(<<"dup", "_", "1">>, ".txt")
      [] f = 4 -> FileName(<<"dup", ":", "1">>, ".txt")
      [] f = 5 -> FileName(<<"HOMER">>, ".JPG")
      [] f = 6 -> FileName(<<"homer", "_", "notes">>, ".dat")
ContentOf(f) ==
    CASE f = 1 -> ContentA
      [] f = 2 -> ContentA
      [] f = 3 -> ContentA
      [] f = 4 -> ContentB
      [] f = 5 -> ContentC
      [] f = 6 -> ContentC

\* Files that may arrive, and organize_file calls made, in one run.
MaxDrops == 2
MaxOrgCalls == 3

NotCalled == [called |-> FALSE, ret |-> NoDest, cat |-> ""]
NoCall == [f |-> 0, branch |-> "none", untouched |-> TRUE]

IdleOrganize ==
    /\ oWatch = {}
    /\ oDropped = {}
    /\ oTree = {}
    /\ oRet = [f \in OrgFiles |-> NotCalled]
    /\ oCalls = 0
    /\ oLast = NoCall

InitOrganize == IdleOrganize

\* A download lands in the watch directory; a directory holds one file per
\* name.
Drop(f) ==
    /\ f \notin oDropped
    /\ Cardinality(oDropped) < MaxDrops
    /\ \A g \in oWatch : NameOf(g) # NameOf(f)
    /\ oWatch' = oWatch \cup {f}
    /\ oDropped' = oDropped \cup {f}
    /\ UNCHANGED <<oTree, oRet, oCalls, oLast>>
    /\ UNCHANGED otherThanOrganize

\* organize_file is called on a file of the watch directory (again, after a
\* call that left it there); the user may have deleted the file just before.
Organize(f) ==
    /\ f \in oWatch
    /\ oCalls < MaxOrgCalls
    /\ oCalls' = oCalls + 1
    /\ \E env \in OrgEnvs :
          LET r == organize_file(~env.vanished, NameOf(f), ContentOf(f), oTree, env)
          IN  /\ oTree' = r.tree
              /\ oWatch' = IF r.src_gone \/ env.vanished THEN oWatch \ {f} ELSE oWatch
              /\ oRet' = [oRet EXCEPT ![f] =
                            [called |-> TRUE, ret |-> r.ret, cat |-> r.cat]]
              /\ oLast' = [f |-> f,
                           branch |-> IF env.vanished THEN "early" ELSE r.branch,
                           untouched |-> (r.tree = oTree)]
    /\ UNCHANGED oDropped
    /\ UNCHANGED otherThanOrganize




\* ======================================================================
\* modules/organize.py: one call of organize_file on a populated tree
\* ======================================================================
\* The incoming file is dup_1.txt with content A or B (the same first eight
\* digits). The tree holds, under the plain destination name of that file
\* and under each suffixed name the loop may probe, nothing, a file of
\* content A or a file of content B.
PlaceName == NameOf(1)
PlaceContents == {ContentA, ContentB}
PlaceDest(k) ==
    Dest(categorize(PlaceName, TRUE), HashPrefix(ContentA),
         sanitize_filename(PlaceName), k)
PlaceSlots == 0..(SuffixCeiling - 1)
PlaceTrees ==
    {{[dest |-> PlaceDest(k), content |-> held[k]] : k \in taken} :
        taken \in SUBSET PlaceSlots, held \in [PlaceSlots -> PlaceContents]}

\* The environments of the call: those of OrgEnvs with the source in place,
\* an existing destination whose content cannot be read for hashing, and a
\* source path that is occupied again after the move.
PlaceEnvs ==
    {e \in OrgEnvs : ~e.vanished}
    \cup {[OkEnv EXCEPT !.dest_hash = "fallback", !.move = m] :
             m \in {"ok", "copy_rmfail"}}
    \cup {[OkEnv EXCEPT !.move = "ok_recreated"]}

NotPlaced == [done |-> FALSE] @@ OrgResult("none", NoDest, "", {}, FALSE)

IdlePlace ==
    /\ gTree = {}
    /\ gSrc = ContentA
    /\ gEnv = OkEnv
    /\ gOut = NotPlaced

\* organize_file is about to be called on the incoming file.
InitPlace ==
    /\ gTree \in PlaceTrees
    /\ gSrc \in PlaceContents
    /\ gEnv \in PlaceEnvs
    /\ gOut = NotPlaced

\* The call of organize_file.
PlaceCall ==
    /\ ~gOut.done
    /\ gOut' = [done |-> TRUE] @@ organize_file(TRUE, PlaceName, gSrc, gTree, gEnv)
    /\ UNCHANGED <<gTree, gSrc, gEnv>>
    /\ UNCHANGED otherThanPlace

\* ======================================================================
\* modules/organize.py: is_keyword_match_file(filepath, config)
\* ======================================================================
\* The function is imported and exercised by tests/test_security_fixes.py
\* (lines 18, 47-71); modules/organize.py holds its one-group forerunner
\* is_springfield_file (lines 63-84). It is modelled from the routing rule:
\* the groups of config['content_organization'] are tried in the order they
\* are configured; a group matches when one of its keywords is a substring
\* of the lower-cased base name; the first matching group's name is
\* returned, None when no group matches.
\*
\* A name is a sequence of characters.
KeyChars == {"h", "H", "b", "B", "_"}
MaxKeyNameLen == 3
KeyNames == UNION {SeqsOfLen(KeyChars, n) : n \in 1..MaxKeyNameLen}

\* str.lower() and str.upper() on a character and on a name.
LowerChar(c) == CASE c = "H" -> "h" [] c = "B" -> "b" [] OTHER -> c
UpperChar(c) == CASE c = "h" -> "H" [] c = "b" -> "B" [] OTHER -> c
LowerName(name) == [i \in 1..Len(name) |-> LowerChar(name[i])]
UpperName(name) == [i \in 1..Len(name) |-> UpperChar(name[i])]

\* keyword in base_name
IsSubstring(keyword, base_name) ==
    \E i \in 1..(Len(base_name) - Len(keyword) + 1) :
        SubSeq(base_name, i, i + Len(keyword) - 1) = keyword

\* The keywords a group may list and the configurations: up to two groups,
\* in either order, each with a non-empty keyword list.
Keywords == {<<"h">>, <<"b", "_">>, <<"h", "b">>}
KeyGroup(name, keywords) == [name |-> name, keywords |-> keywords]
KeyGroups ==
    {KeyGroup(g, ks) : g \in {"Springfield", "Business"},
                       ks \in (SUBSET Keywords) \ {{}}}
KeyConfigs ==
    {<<>>} \cup {<<g>> : g \in KeyGroups}
           \cup {c \in {<<g1, g2>> : g1 \in KeyGroups, g2 \in KeyGroups} :
                     c[1].name # c[2].name}

\* for group, keywords in config.items(): the first group with a keyword in
\* the name.
RECURSIVE KeywordLoop(_, _)
KeywordLoop(base_name, groups) ==
    IF groups = <<>> THEN None
    ELSE IF \E keyword \in Head(groups).keywords : IsSubstring(keyword, base_name)
         THEN Head(groups).name
         ELSE KeywordLoop(base_name, Tail(groups))

\* A mutated rule that does not lower-case the name.
is_keyword_match_file_CaseSensitive(name, config) ==
    KeywordLoop(name, config)

is_keyword_match_file(name, config) ==
    KeywordLoop(LowerName(name), config)

KeyIdle == [done |-> FALSE, result |-> None]

IdleKeyword ==
    /\ kName = <<"h">>
    /\ kConfig = <<>>
    /\ kOut = KeyIdle

\* The rule is about to be applied to some name under some configuration.
InitKeyword ==
    /\ kName \in KeyNames
    /\ kConfig \in KeyConfigs
    /\ kOut = KeyIdle

\* One call of is_keyword_match_file.
KeywordCall ==
    /\ ~kOut.done
    /\ kOut' = [done |-> TRUE, result |-> is_keyword_match_file(kName, kConfig)]
    /\ UNCHANGED <<kName, kConfig>>
    /\ UNCHANGED otherThanKeyword

\* ======================================================================
\* modules/antivirus.py: is_eicar_file and scan_file
\* ======================================================================
\* The file: whether it exists, whether os.access grants reading, whether
\* its first 1024 characters hold EICAR_SIGNATURE, and whether it is larger
\* than max_scan_size.
ScanFiles == [exists : BOOLEAN, readable : BOOLEAN, eicar : BOOLEAN,
              large : BOOLEAN]

\* What the subprocess `clamscan --no-summary --move <quarantine> <file>`
\* does under subprocess.run with timeout=scan_timeout:
\*   rc0          exit code 0
\*   rc1_moved    exit code 1, the file is now in the quarantine directory
\*   rc1_removed  exit code 1, the file is gone from its path
\*   rc1_kept     exit code 1, the file is still at its path
\*   rc2          another exit code
\*   timeout      subprocess.TimeoutExpired
\*   notfound     FileNotFoundError: no such executable
SubprocessEvents ==
    {"rc0", "rc1_moved", "rc1_removed", "rc1_kept", "rc2", "timeout", "notfound"}

\* The configuration and the environment of one call:
\*   clamscan    config['virus_scanning']['clamscan_path']: "echo" is the
\*               mock scanner
\*   quar_mkdir  os.makedirs(quarantine, exist_ok=True): "ok" or "raise"
\*   move        shutil.move(filepath, quarantine_path): "ok", "fail", or
\*               "copy_rmfail" (copied across devices, the source could not
\*               be unlinked)
\*   sub         what the clamscan subprocess does
ScanEnvs == [clamscan : {"echo", "clamscan"}, quar_mkdir : {"ok", "raise"},
             move : {"ok", "fail", "copy_rmfail"}, sub : SubprocessEvents]

\* is_eicar_file (antivirus.py:11-26): the signature is in the first 1024
\* characters read; a file that cannot be opened gives False.
is_eicar_file(file) == file.exists /\ file.readable /\ file.eicar

ScanResult(result, at_path, in_quar, ran) ==
    [result |-> result, at_path |-> at_path, in_quar |-> in_quar, ran |-> ran]

\* A mutated EICAR branch: a failed move is reported as a quarantine.
EicarOutcome_IgnoreMoveFailure(move) ==
    ScanResult("quarantined", move # "ok", move # "fail", FALSE)

\* antivirus.py:85-92: the EICAR file is moved into the quarantine
\* directory; any exception of the move gives "error".
EicarOutcome(move) ==
    IF move = "ok" THEN ScanResult("quarantined", FALSE, TRUE, FALSE)
    ELSE ScanResult("error", TRUE, move = "copy_rmfail", FALSE)

\* antivirus.py:120-177: the result of the clamscan subprocess. A file found
\* in the quarantine directory, or gone after exit code 1, is "quarantined";
\* exit code 0 is "clean"; every other exit code and every exception,
\* TimeoutExpired included, is "error".
SubprocessOutcome(sub) ==
    CASE sub = "rc0"         -> ScanResult("clean", TRUE, FALSE, TRUE)
      [] sub = "rc1_moved"   -> ScanResult("quarantined", FALSE, TRUE, TRUE)
      [] sub = "rc1_removed" -> ScanResult("quarantined", FALSE, FALSE, TRUE)
      [] OTHER               -> ScanResult("error", TRUE, FALSE, TRUE)

\* scan_file(filepath, config), antivirus.py:47-186. The result is "clean",
\* "quarantined" or "error", or "raise" when an exception leaves the
\* function: os.makedirs of the EICAR branch (antivirus.py:83) is outside
\* every try.
scan_file(file, env) ==
    IF ~file.exists THEN ScanResult("error", FALSE, FALSE, FALSE)
    ELSE IF ~file.readable THEN ScanResult("error", TRUE, FALSE, FALSE)
    ELSE IF is_eicar_file(file)
    THEN IF env.quar_mkdir = "raise"
         THEN ScanResult("raise", TRUE, FALSE, FALSE)
         ELSE EicarOutcome(env.move)
    ELSE IF env.quar_mkdir = "raise" THEN ScanResult("error", TRUE, FALSE, FALSE)
    ELSE IF env.clamscan = "echo" THEN ScanResult("clean", TRUE, FALSE, FALSE)
    ELSE IF file.large THEN ScanResult("clean", TRUE, FALSE, FALSE)
    ELSE SubprocessOutcome(env.sub)

NotScanned == [done |-> FALSE] @@ ScanResult("none", TRUE, FALSE, FALSE)

IdleScan ==
    /\ sFile = [exists |-> TRUE, readable |-> TRUE, eicar |-> FALSE,
                large |-> FALSE]
    /\ sEnv = [clamscan |-> "echo", quar_mkdir |-> "ok", move |-> "ok",
               sub |-> "rc0"]
    /\ sOut = NotScanned

\* scan_file is about to be called on some file in some environment.
InitScan ==
    /\ sFile \in ScanFiles
    /\ sEnv \in ScanEnvs
    /\ sOut = NotScanned

\* One call of scan_file.
ScanCall ==
    /\ ~sOut.done
    /\ sOut' = [done |-> TRUE] @@ scan_file(sFile, sEnv)
    /\ UNCHANGED <<sFile, sEnv>>
    /\ UNCHANGED otherThanScan

\* The caller comes with another file.
ScanNewFile ==
    /\ sOut.done
    /\ sFile' \in ScanFiles
    /\ sEnv' \in ScanEnvs
    /\ sOut' = NotScanned
    /\ UNCHANGED otherThanScan

\* ======================================================================
\* orchestrator.py: safe_file_operation and process_new_file
\* ======================================================================
IGNORE_EXTENSIONS == {".part", ".crdownload", ".tmp", ".temp", ".downloading"}

\* config['archive_extensions']
archive_extensions == {".zip", ".tar", ".tar.gz", ".rar", ".7z"}

\* config.get('max_extraction_depth', 5), scaled down.
max_extraction_depth == 2

\* Seconds the clock may show: enough for every archive of the chain to get
\* a directory of its own.
MaxClock == max_extraction_depth + 1

Digit(k) ==
    CASE k = 0 -> "0" [] k = 1 -> "1" [] k = 2 -> "2" [] k = 3 -> "3"
      [] k = 4 -> "4" [] k = 5 -> "5" [] k = 6 -> "6" [] OTHER -> "n"

\* The files of the pipeline: a document and a partial download in the
\* watch directory, and a chain of max_extraction_depth + 1 nested archives,
\* each holding the next archive; the last two also hold a document. The
\* second archive of the chain is a rar archive, the others are zip archives.
PFile(kind, level) == [kind |-> kind, level |-> level]
ChainLength == max_extraction_depth + 1
PName(f) ==
    CASE f.kind = "arc"     -> FileName(<<"pack", Digit(f.level)>>,
                                        IF f.level = 2 THEN ".rar" ELSE ".zip")
      [] f.kind = "plain"   -> FileName(<<"doc", Digit(f.level)>>, ".txt")
      [] f.kind = "partial" -> FileName(<<"movie">>, ".part")
PContent(f) == Content(f.kind \o Digit(f.level), f.kind \o Digit(f.level) \o "full")
Members(f) ==
    IF f.kind # "arc" THEN <<>>
    ELSE IF f.level < ChainLength - 1
         THEN <<PFile("arc", f.level + 1)>>
    ELSE IF f.level = ChainLength - 1
         THEN <<PFile("arc", f.level + 1), PFile("plain", f.level)>>
         ELSE <<PFile("plain", f.level)>>

\* A source path: the directory (0: the watch directory, otherwise the
\* second that names extract_<second>_<pid>) and the file in it.
PPath(dir, f) == [dir |-> dir, f |-> f]
WatchPaths ==
    {PPath(0, PFile("plain", 0)), PPath(0, PFile("partial", 0)),
     PPath(0, PFile("arc", 1))}

\* A mutated extension test: only .zip counts as an archive.
IsArchivePath_ZipOnly(path) == Lower(PName(path.f).ext) = ".zip"

\* orchestrator.py:169: the path ends with one of config['archive_extensions'].
IsArchivePath(path) == Lower(PName(path.f).ext) \in archive_extensions
IsIgnoredPath(path) == Lower(PName(path.f).ext) \in IGNORE_EXTENSIONS

\* A call frame of process_new_file(filepath, retry_count): where it stands,
\* scan_result ("unset" before the scan), the extracted files still to
\* process, the saved current_depth, the organized_path, and the seconds
\* the caller slept before making the call.
Frame(path, retry_count) ==
    [path |-> path, retry |-> retry_count, pc |-> "validate",
     scan |-> "unset", todo |-> <<>>, cur |-> 0, org |-> NoDest, waited |-> 0]

\* orchestrator.py:158, 208: the sleep before a task-level retry,
\* time.sleep(RETRY_DELAY_BASE * (RETRY_BACKOFF_MULTIPLIER ** retry_count)).
TaskRetryDelay(retry_count) ==
    RETRY_DELAY_BASE * Pow(RETRY_BACKOFF_MULTIPLIER, retry_count)

\* The frame of the call process_new_file(filepath, retry_count + 1).
RetryFrame(path, retry_count) ==
    [Frame(path, retry_count + 1) EXCEPT !.waited = TaskRetryDelay(retry_count)]

Top == stack[Len(stack)]
SetTop(frame) == [stack EXCEPT ![Len(stack)] = frame]
Popped == SubSeq(stack, 1, Len(stack) - 1)

\* The frame on top returns; the bottom frame's return ends the task.
Return ==
    /\ stack' = Popped
    /\ pDone' = IF Len(stack) = 1 THEN pDone \cup {Top.path} ELSE pDone

\* After its sleep, process_new_file(filepath, retry_count + 1) is called
\* from the top frame, which returns when the call comes back.
CallRetry ==
    stack' = Append(SetTop([Top EXCEPT !.pc = "return"]),
                    RetryFrame(Top.path, Top.retry))

\* What the environment does to organize_file inside the pipeline: every
\* outcome of the checks and of the move, with the source and the category
\* folder in place.
PipeEnvs == {e \in OrgEnvs : ~e.vanished /\ e.mkdir # "fallback"}

\* An operation that raises on its first k calls and then returns v.
Script(k, v) == [i \in 1..MaxCalls |-> IF i <= k THEN "raise" ELSE v]

IdlePipeline ==
    /\ stack = <<>>
    /\ depth = 0
    /\ clock = 1
    /\ pPresent = WatchPaths
    /\ pDirs = {}
    /\ pTree = {}
    /\ pQuar = {}
    /\ pExtractLog = {}
    /\ pTasks = {}
    /\ pDone = {}
    /\ pCleared = {}
    /\ pWorked = {}
    /\ pMeta = {}
    /\ pStart = {}
    /\ pScanned = {}

InitPipeline == IdlePipeline

\* What a watch path is when its task starts: a readable file, a file the
\* process may not read, or nothing (removed since it was seen). The
\* document is the file that may have been removed, the archive the one
\* that may be unreadable.
StartStates(path) ==
    CASE path.f.kind = "plain" -> {"readable", "missing"}
      [] path.f.kind = "arc"   -> {"readable", "unreadable"}
      [] OTHER                 -> {"readable"}
Started(path, was) == [path |-> path, was |-> was]

\* The monitor or the startup scan hands a watch path to process_new_file.
Submit(path) ==
    /\ stack = <<>>
    /\ path \notin pTasks
    /\ pTasks' = pTasks \cup {path}
    /\ stack' = <<Frame(path, 0)>>
    /\ \E was \in StartStates(path) :
          /\ pStart' = IF was = "readable" THEN pStart
                       ELSE pStart \cup {Started(path, was)}
          /\ pPresent' = IF was = "missing" THEN pPresent \ {path} ELSE pPresent
    /\ UNCHANGED <<depth, clock, pDirs, pTree, pQuar, pExtractLog, pDone,
                   pCleared, pWorked, pMeta, pScanned>>
    /\ UNCHANGED otherThanPipeline

\* A mutated safe_file_operation: the permission check is left out.
safe_file_operation_NoAccessCheck(exists, readable, script) ==
    IF ~exists
    THEN [result |-> None, calls |-> 0, slept |-> <<>>]
    ELSE retry_operation(script)

\* safe_file_operation (orchestrator.py:60-101): without the file, or
\* without read permission on it, None is returned and the operation is not
\* invoked; otherwise the operation runs under retry_operation.
safe_file_operation(exists, readable, script) ==
    IF ~exists
    THEN [result |-> None, calls |-> 0, slept |-> <<>>]
    ELSE IF ~readable
    THEN [result |-> None, calls |-> 0, slept |-> <<>>]
    ELSE retry_operation(script)

\* orchestrator.py:112-146: a missing path and an ignored extension end the
\* task silently.
Validate ==
    /\ stack # <<>> /\ Top.pc = "validate"
    /\ IF Top.path \notin pPresent \/ IsIgnoredPath(Top.path)
       THEN Return
       ELSE stack' = SetTop([Top EXCEPT !.pc = "scan"]) /\ UNCHANGED pDone
    /\ UNCHANGED <<depth, clock, pPresent, pDirs, pTree, pQuar, pExtractLog, pTasks,
                   pCleared, pWorked, pMeta, pStart, pScanned>>
    /\ UNCHANGED otherThanPipeline

\* A mutated result test: a quarantined file is retried like a scan error.
AfterScan_RetryQuarantine(scan_result, retry_count) ==
    IF scan_result \in {"quarantined", "error"}
    THEN IF retry_count < MAX_RETRIES - 1 THEN "retry" ELSE "return"
    ELSE IF scan_result = None THEN "return"
    ELSE "continue"

\* A mutated result test: a scan that gave no result is not looked at.
AfterScan_IgnoreNone(scan_result, retry_count) ==
    IF scan_result = "quarantined" THEN "return"
    ELSE IF scan_result = "error"
    THEN IF retry_count < MAX_RETRIES - 1 THEN "retry" ELSE "return"
    ELSE "continue"

\* A mutated result test: a scan error is not looked at.
AfterScan_IgnoreError(scan_result, retry_count) ==
    IF scan_result = "quarantined" THEN "return"
    ELSE IF scan_result = None THEN "return"
    ELSE "continue"

\* What process_new_file does with scan_result (orchestrator.py:152-166):
\* return, call itself with retry_count + 1 and then return, or go on to
\* the next step.
AfterScan(scan_result, retry_count) ==
    IF scan_result = "quarantined" THEN "return"
    ELSE IF scan_result = "error"
    THEN IF retry_count < MAX_RETRIES - 1 THEN "retry" ELSE "return"
    ELSE IF scan_result = None THEN "return"
    ELSE "continue"

\* A mutated last step: a failed metadata recording retries the task.
AfterMetadata_Retry(metadata_result, retry_count) ==
    IF metadata_result = None /\ retry_count < MAX_RETRIES - 1
    THEN "retry" ELSE "return"

\* What process_new_file does with metadata_result (orchestrator.py:217-221):
\* it logs success or a warning, and the function ends.
AfterMetadata(metadata_result, retry_count) == "return"

\* What process_new_file reports for metadata_result (orchestrator.py:217-220):
\* "Successfully completed processing" for a result other than None, else
\* "Metadata extraction failed but file was organized".
MetadataReport(metadata_result) ==
    IF metadata_result # None THEN "completed" ELSE "metadata_failed"

\* orchestrator.py:148-170: the scan through safe_file_operation and
\* retry_operation. When it is invoked, scan_file raises on its first k calls and then returns;
\* a "quarantined" result has moved the file into the quarantine directory.
Scan ==
    /\ stack # <<>> /\ Top.pc = "scan"
    /\ \E k \in 0..MAX_RETRIES, v \in {"clean", "quarantined", "error"} :
          LET op == safe_file_operation(Top.path \in pPresent,
                                        Started(Top.path, "unreadable") \notin pStart,
                                        Script(k, v))
              scan_result == op.result
          IN
          /\ pScanned' = IF op.calls > 0 THEN pScanned \cup {Top.path} ELSE pScanned
          /\ pPresent' = IF scan_result = "quarantined"
                         THEN pPresent \ {Top.path} ELSE pPresent
          /\ pQuar' = IF scan_result = "quarantined"
                      THEN pQuar \cup {Top.path} ELSE pQuar
          /\ pCleared' = IF scan_result \in {"quarantined", "error", None}
                         THEN pCleared ELSE pCleared \cup {Top.path}
          /\ CASE AfterScan(scan_result, Top.retry) = "return" -> Return
               [] AfterScan(scan_result, Top.retry) = "retry" ->
                     /\ stack' = Append(SetTop([Top EXCEPT !.pc = "return",
                                                           !.scan = scan_result]),
                                        RetryFrame(Top.path, Top.retry))
                     /\ UNCHANGED pDone
               [] OTHER ->
                     /\ stack' = SetTop([Top EXCEPT !.scan = scan_result, !.pc =
                            IF IsArchivePath(Top.path) THEN "extract" ELSE "organize"])
                     /\ UNCHANGED pDone
    /\ UNCHANGED <<depth, clock, pDirs, pTree, pExtractLog, pTasks, pWorked, pMeta,
                   pStart>>
    /\ UNCHANGED otherThanPipeline

\* Time only matters through equality of seconds: an extraction happens in
\* the second of the previous one (clock) or in a later one (clock + 1).
\* extract_archives(filepath, config) at second t (extract.py:154-165 and
\* 282-299): the directory extract_<t>_<pid> is made with os.makedirs, which
\* fails when it exists and makes the function return []; otherwise the
\* members are written into it and listed, or, for an archive that cannot
\* be read, nothing is. What happens when the archive is read (`how`):
\*   zip           "ok", or "corrupt": zipfile raises BadZipFile, or
\*                 another exception for a file it cannot read, caught at
\*                 extract.py:272-280, return []
\*   rar (and 7z)  what the unrar subprocess does under run_command:
\*                 "ok", "failed" (non-zero exit) or "timeout"; without
\*                 success the function returns [] (extract.py:252-254)
ReadEvents(arc) ==
    IF Lower(PName(arc).ext) = ".zip" THEN {"ok", "corrupt"}
    ELSE {"ok", "failed", "timeout"}

\* run_command (extract.py:12-45): subprocess.run with check=True and a
\* timeout; TimeoutExpired and CalledProcessError are caught and reported as
\* (False, message), nothing is raised.
run_command(event) ==
    [success |-> (event = "ok"), raised |-> FALSE]

extract_archives(arc, t, dirs, how) ==
    IF t \in dirs
    THEN [outcome |-> "collision", dirs |-> dirs, files |-> <<>>]
    ELSE IF Lower(PName(arc).ext) = ".zip"
    THEN IF how = "ok"
         THEN [outcome |-> "ok", dirs |-> dirs \cup {t},
               files |-> [i \in 1..Len(Members(arc)) |-> PPath(t, Members(arc)[i])]]
         ELSE [outcome |-> "corrupt", dirs |-> dirs \cup {t}, files |-> <<>>]
    ELSE IF run_command(how).success
         THEN [outcome |-> "ok", dirs |-> dirs \cup {t},
               files |-> [i \in 1..Len(Members(arc)) |-> PPath(t, Members(arc)[i])]]
         ELSE [outcome |-> how, dirs |-> dirs \cup {t}, files |-> <<>>]

Range(seq) == {seq[i] : i \in 1..Len(seq)}

\* A mutated depth test: recursion is never refused.
DepthLimitReached_Never(current_depth) == FALSE

\* A mutated depth test: recursion is refused one level early.
DepthLimitReached_OneEarly(current_depth) ==
    current_depth >= max_extraction_depth - 1

\* A mutated depth test: `>` instead of `>=`.
DepthLimitReached_OffByOne(current_depth) ==
    current_depth > max_extraction_depth

\* orchestrator.py:181: `if current_depth >= max_extraction_depth`
DepthLimitReached(current_depth) ==
    current_depth >= max_extraction_depth

\* A mutated result test: an empty list is taken for a failure and the
\* task is tried again.
AfterExtract_RetryEmpty(is_none, extracted_files, retry_count) ==
    IF is_none THEN "return"
    ELSE IF extracted_files = <<>> /\ retry_count < MAX_RETRIES - 1 THEN "retry"
    ELSE "process"

\* What process_new_file does with extracted_files (orchestrator.py:174-199):
\* a list, empty or not, goes to the depth check and the loop; None is
\* logged and the function returns. There is no retry in this step.
AfterExtract(is_none, extracted_files, retry_count) ==
    IF is_none THEN "return" ELSE "process"

\* orchestrator.py:172-199: extraction through safe_file_operation and
\* retry_operation, then the depth check and the start of the loop over
\* the extracted files. extract_archives catches what its steps raise: it
\* returns on its first call, or (a configuration without
\* directories.tmp_unzip, extract.py:135) raises on every call.
Extract ==
    /\ stack # <<>> /\ Top.pc = "extract"
    /\ \E k \in {0, MAX_RETRIES}, t \in {clock, clock + 1} \cap (1..MaxClock),
          how \in ReadEvents(Top.path.f) :
          LET op == retry_operation(Script(k, "list"))
              ran == op.result # None
              x == extract_archives(Top.path.f, t, pDirs, how)
              current_depth == depth
              step == AfterExtract(~ran, x.files, Top.retry)
          IN
          /\ clock' = t
          /\ pExtractLog' = pExtractLog \cup
                {[arc |-> Top.path.f, path |-> Top.path, depth |-> depth,
                  outcome |-> IF ran THEN x.outcome ELSE "raised",
                  calls |-> op.calls, again |-> (Top.path \in pWorked)]}
          /\ IF ran
             THEN pDirs' = x.dirs /\ pPresent' = pPresent \cup Range(x.files)
             ELSE UNCHANGED <<pDirs, pPresent>>
          /\ CASE step = "return" -> Return /\ UNCHANGED depth
               [] step = "retry" -> CallRetry /\ UNCHANGED <<depth, pDone>>
               [] OTHER ->
                     IF DepthLimitReached(current_depth)
                     THEN Return /\ UNCHANGED depth
                     ELSE /\ depth' = current_depth + 1
                          /\ stack' = SetTop([Top EXCEPT !.pc = "loop",
                                                !.todo = x.files,
                                                !.cur = current_depth])
                          /\ UNCHANGED pDone
    /\ pWorked' = pWorked \cup {Top.path}
    /\ UNCHANGED <<pTree, pQuar, pTasks, pCleared, pMeta, pStart, pScanned>>
    /\ UNCHANGED otherThanPipeline

\* orchestrator.py:187-199: one iteration of `for extracted in
\* extracted_files`, or the end of the loop with its `finally`.
Loop ==
    /\ stack # <<>> /\ Top.pc = "loop"
    /\ IF Top.todo = <<>>
       THEN /\ depth' = Top.cur
            /\ Return
       ELSE /\ UNCHANGED <<depth, pDone>>
            /\ LET rest == SetTop([Top EXCEPT !.todo = Tail(Top.todo)]) IN
               stack' = IF Head(Top.todo) \in pPresent
                        THEN Append(rest, Frame(Head(Top.todo), 0))
                        ELSE rest
    /\ UNCHANGED <<clock, pPresent, pDirs, pTree, pQuar, pExtractLog, pTasks,
                   pCleared, pWorked, pMeta, pStart, pScanned>>
    /\ UNCHANGED otherThanPipeline

\* orchestrator.py:201-211: organize_file through safe_file_operation and
\* retry_operation; organize_file returns on its first call, so it runs once.
Organize_step ==
    /\ stack # <<>> /\ Top.pc = "organize"
    /\ \E env \in PipeEnvs :
          LET r == organize_file(Top.path \in pPresent,
                                 PName(Top.path.f), PContent(Top.path.f), pTree, env)
              organized_path ==
                  IF retry_operation(Script(0, "returned")).result = "returned"
                  THEN r.ret ELSE NoDest
          IN
          /\ pTree' = r.tree
          /\ pPresent' = IF r.src_gone THEN pPresent \ {Top.path} ELSE pPresent
          /\ IF organized_path = NoDest
             THEN IF Top.retry < MAX_RETRIES - 1
                  THEN CallRetry /\ UNCHANGED pDone
                  ELSE Return
             ELSE /\ stack' = SetTop([Top EXCEPT !.pc = "metadata",
                                                !.org = organized_path])
                  /\ UNCHANGED pDone
    /\ pWorked' = pWorked \cup {Top.path}
    /\ UNCHANGED <<depth, clock, pDirs, pQuar, pExtractLog, pTasks, pCleared, pMeta,
                   pStart, pScanned>>
    /\ UNCHANGED otherThanPipeline

\* orchestrator.py:213-221: metadata recording through safe_file_operation
\* and retry_operation. extract_metadata (modules/metadata.py:6-27) has no
\* return statement: it returns None, or raises on each of its calls, so
\* metadata_result is None either way.
Metadata ==
    /\ stack # <<>> /\ Top.pc = "metadata"
    /\ \E k \in {0, MAX_RETRIES} :
          LET metadata_result == retry_operation(Script(k, None)).result IN
          /\ pMeta' = pMeta \cup {[path |-> Top.path, raised |-> (k = MAX_RETRIES),
                                    report |-> MetadataReport(metadata_result)]}
          /\ IF AfterMetadata(metadata_result, Top.retry) = "retry"
             THEN CallRetry /\ UNCHANGED pDone
             ELSE Return
    /\ UNCHANGED <<depth, clock, pPresent, pDirs, pTree, pQuar, pExtractLog, pTasks,
                   pCleared, pWorked, pStart, pScanned>>
    /\ UNCHANGED otherThanPipeline

\* The return after a task-level retry (orchestrator.py:161, 211).
ReturnAfterRetry ==
    /\ stack # <<>> /\ Top.pc = "return"
    /\ Return
    /\ UNCHANGED <<depth, clock, pPresent, pDirs, pTree, pQuar, pExtractLog, pTasks,
                   pCleared, pWorked, pMeta, pStart, pScanned>>
    /\ UNCHANGED otherThanPipeline


\* ======================================================================
\* orchestrator.py process_existing_files; modules/monitor.py Handler
\* ======================================================================
\* Names in the watch directory, in sorted order, and live events per run.
MaxNames == 3
MaxEvents == 3
MNames == 1..MaxNames

\* What a name of the watch directory is: a regular file, a hidden file
\* (the name starts with "."), a subdirectory, or nothing.
ItemKinds == {"file", "hidden", "dir", "absent"}

\* How a call of process_new_file ends for its caller: it returns, or an
\* exception escapes it.
CallbackOutcomes == [raised : BOOLEAN]

\* A mutated startup loop without the inner try/except: the exception
\* reaches the handler around the whole scan and ends the loop.
ScanLoopAfter_NoTry(raised) ==
    [continue |-> ~raised, errors |-> 0]

\* orchestrator.py:257-284: the try/except around one file of the startup
\* loop counts the error and goes on with the next file.
ScanLoopAfter(raised) ==
    [continue |-> TRUE, errors |-> IF raised THEN 1 ELSE 0]

\* monitor.py:62-67: the handler catches the exception and takes the path
\* out of processed_files; the dispatching thread lives on.
HandlerAfter(raised) ==
    [alive |-> TRUE, keep |-> ~raised]

\* config.get('process_hidden_files', False) (orchestrator.py:268): the key
\* is absent from the shipped configuration.
process_hidden_files == FALSE

\* A mutated handler that forgets which paths it has accepted.
Suppressed_Never(filepath, processed) == FALSE

\* monitor.py:51: the handler skips an event whose path is in
\* processed_files.
Suppressed(filepath, processed) == filepath \in processed

\* No event handled yet.
NoEvent == [n |-> 0, exists |-> FALSE, was_processed |-> FALSE, called |-> FALSE]

IdleMonitor ==
    /\ mKind = [n \in MNames |-> "absent"]
    /\ mPhase = "startup"
    /\ mIdx = 1
    /\ mScanCalled = {}
    /\ mScanRaised = {}
    /\ error_count = 0
    /\ processed_files = {}
    /\ mAlive = TRUE
    /\ mEvents = 0
    /\ mLiveCalled = {}
    /\ mLiveRaised = {}
    /\ mCalledAfterRaise = FALSE
    /\ mScanOrder = <<>>
    /\ mCycleCalls = [n \in MNames |-> 0]
    /\ mLast = NoEvent

\* The watch directory holds any mix of items when the program starts.
InitMonitor ==
    /\ mKind \in [MNames -> ItemKinds]
    /\ mPhase = "startup"
    /\ mIdx = 1
    /\ mScanCalled = {}
    /\ mScanRaised = {}
    /\ error_count = 0
    /\ processed_files = {}
    /\ mAlive = TRUE
    /\ mEvents = 0
    /\ mLiveCalled = {}
    /\ mLiveRaised = {}
    /\ mCalledAfterRaise = FALSE
    /\ mScanOrder = <<>>
    /\ mCycleCalls = [n \in MNames |-> 0]
    /\ mLast = NoEvent

\* files = os.listdir(watch_dir); files.sort(): the names present, ascending.
Listing == {n \in MNames : mKind[n] # "absent"}
RECURSIVE SortedSeq(_)
SortedSeq(S) ==
    IF S = {} THEN <<>>
    ELSE LET least == CHOOSE x \in S : \A y \in S : x <= y
         IN  <<least>> \o SortedSeq(S \ {least})

\* A mutated loop that walks the listing from its end.
NextListed_Descending(listing, idx) ==
    SortedSeq(listing)[Cardinality(listing) + 1 - idx]

\* files.sort(); for fname in files (orchestrator.py:252-254): the name the
\* loop visits in its idx-th iteration.
NextListed(listing, idx) == SortedSeq(listing)[idx]

\* The listing is taken once, before the loop; mKind changes only for names
\* the loop has already visited.
\* One iteration of the startup loop (orchestrator.py:254-284).
ScanFile ==
    /\ mPhase = "startup"
    /\ mIdx <= Cardinality(Listing)
    /\ LET fname == NextListed(Listing, mIdx) IN
       IF \/ mKind[fname] = "file"
          \/ (mKind[fname] = "hidden" /\ process_hidden_files)
       THEN \E out \in CallbackOutcomes :
               LET after == ScanLoopAfter(out.raised) IN
               /\ mScanCalled' = mScanCalled \cup {fname}
               /\ mScanOrder' = Append(mScanOrder, fname)
               /\ mScanRaised' = IF out.raised THEN mScanRaised \cup {fname}
                                 ELSE mScanRaised
               /\ error_count' = error_count + after.errors
               /\ mIdx' = IF after.continue THEN mIdx + 1
                          ELSE Cardinality(Listing) + 1
               /\ mKind' = mKind
       ELSE \* hidden files, subdirectories: skipped
            /\ mIdx' = mIdx + 1
            /\ UNCHANGED <<mScanCalled, mScanRaised, error_count, mKind,
                           mScanOrder>>
    /\ UNCHANGED <<mPhase, processed_files, mAlive, mEvents, mLiveCalled,
                   mLiveRaised, mCalledAfterRaise, mCycleCalls, mLast>>
    /\ UNCHANGED otherThanMonitor

\* The loop is over; main() starts the FolderMonitor (orchestrator.py:301-303).
StartMonitor ==
    /\ mPhase = "startup"
    /\ mIdx > Cardinality(Listing)
    /\ mPhase' = "live"
    /\ UNCHANGED <<mKind, mIdx, mScanCalled, mScanRaised, error_count,
                   processed_files, mAlive, mEvents, mLiveCalled, mLiveRaised,
                   mCalledAfterRaise, mScanOrder, mCycleCalls, mLast>>
    /\ UNCHANGED otherThanMonitor

\* A created, moved or closed event for a file path reaches
\* Handler._handle_file_event (monitor.py:34-67); the path exists or not
\* when the handler looks.
FileEvent(n, exists) ==
    /\ mPhase = "live" /\ mAlive
    /\ mEvents < MaxEvents
    /\ mEvents' = mEvents + 1
    /\ IF Suppressed(n, processed_files) \/ ~exists
       THEN /\ mLast' = [n |-> n, exists |-> exists,
                         was_processed |-> n \in processed_files,
                         called |-> FALSE]
            /\ UNCHANGED <<processed_files, mAlive, mLiveCalled, mLiveRaised,
                           mCalledAfterRaise, mCycleCalls>>
       ELSE \E out \in CallbackOutcomes :
               LET after == HandlerAfter(out.raised) IN
               /\ processed_files' = IF after.keep THEN processed_files \cup {n}
                                     ELSE processed_files \ {n}
               /\ mCycleCalls' = [mCycleCalls EXCEPT ![n] =
                                    IF after.keep THEN @ + 1 ELSE 0]
               /\ mLast' = [n |-> n, exists |-> exists,
                            was_processed |-> n \in processed_files,
                            called |-> TRUE]
               /\ mAlive' = after.alive
               /\ mLiveCalled' = mLiveCalled \cup {n}
               /\ mLiveRaised' = IF out.raised THEN mLiveRaised \cup {n}
                                 ELSE mLiveRaised
               /\ mCalledAfterRaise' = (mCalledAfterRaise \/ mLiveRaised # {})
    /\ UNCHANGED <<mKind, mPhase, mIdx, mScanCalled, mScanRaised, error_count,
                   mScanOrder>>
    /\ UNCHANGED otherThanMonitor


\* ======================================================================
\* orchestrator.py process_new_file, lines 177-195, run by several threads
\* ======================================================================
\* process_new_file is a plain function that keeps the extraction depth in
\* an attribute of itself; every thread that calls it (an observer thread,
\* the startup scan, a caller's pool) reads and writes the same attribute.
\* A worker processes a top-level archive task: worker 1 a flat archive,
\* worker 2 a chain of max_extraction_depth nested archives, so that neither
\* task reaches the limit on its own. Threads switch between bytecodes: the
\* read of the attribute, its write and the write in `finally` are separate
\* steps.
Workers == {1, 2}

\* Nested archives in the worker's task.
WChain(w) == IF w = 1 THEN 1 ELSE max_extraction_depth

IdleWorkers ==
    /\ wDepth = 0
    /\ wPc = [w \in Workers |-> "idle"]
    /\ wLocal = [w \in Workers |-> 0]
    /\ wSaved = [w \in Workers |-> <<>>]
    /\ wRefused = {}

InitWorkers == IdleWorkers

\* A thread calls process_new_file on its archive; the archive is extracted.
WStart(w) ==
    /\ wPc[w] = "idle"
    /\ wPc' = [wPc EXCEPT ![w] = "read"]
    /\ UNCHANGED <<wDepth, wLocal, wSaved, wRefused>>
    /\ UNCHANGED otherThanWorkers

\* current_depth = getattr(process_new_file, '_extraction_depth', 0) and the
\* test against max_extraction_depth (orchestrator.py:179-183).
WRead(w) ==
    /\ wPc[w] = "read"
    /\ wLocal' = [wLocal EXCEPT ![w] = wDepth]
    /\ IF DepthLimitReached(wDepth)
       THEN /\ wRefused' = wRefused \cup {w}
            /\ wPc' = [wPc EXCEPT ![w] = "unwind"]
       ELSE /\ wPc' = [wPc EXCEPT ![w] = "set"]
            /\ UNCHANGED wRefused
    /\ UNCHANGED <<wDepth, wSaved>>
    /\ UNCHANGED otherThanWorkers

\* process_new_file._extraction_depth = current_depth + 1
\* (orchestrator.py:185); the loop then processes the extracted files: the
\* nested archive in a frame of its own, or plain files only.
WSet(w) ==
    /\ wPc[w] = "set"
    /\ wDepth' = wLocal[w] + 1
    /\ wSaved' = [wSaved EXCEPT ![w] = Append(@, wLocal[w])]
    /\ wPc' = [wPc EXCEPT ![w] =
                 IF Len(wSaved[w]) + 1 < WChain(w) THEN "read" ELSE "unwind"]
    /\ UNCHANGED <<wLocal, wRefused>>
    /\ UNCHANGED otherThanWorkers

\* finally: process_new_file._extraction_depth = current_depth
\* (orchestrator.py:194-195), frame after frame; then the task is done.
WRestore(w) ==
    /\ wPc[w] = "unwind"
    /\ IF wSaved[w] = <<>>
       THEN /\ wPc' = [wPc EXCEPT ![w] = "done"]
            /\ UNCHANGED <<wDepth, wSaved>>
       ELSE /\ wDepth' = wSaved[w][Len(wSaved[w])]
            /\ wSaved' = [wSaved EXCEPT ![w] = SubSeq(@, 1, Len(@) - 1)]
            /\ UNCHANGED wPc
    /\ UNCHANGED <<wLocal, wRefused>>
    /\ UNCHANGED otherThanWorkers

\* ======================================================================
\* orchestrator.py process_new_file: the call tree of one task
\* ======================================================================
\* A task of process_new_file as calls, returns and exceptions. The files
\* are an archive that holds a copy of itself, and a document; every
\* collaborator may fail on each of its calls, and an exception may leave
\* any frame (one that retry_operation does not catch: KeyboardInterrupt,
\* or one raised outside the wrapped operations).
CallKinds == {"arc", "plain"}

\* What extract_archives may list for the archive: nothing, the copy of
\* the archive, or a document and the copy.
CallLists == {<<>>, <<"arc">>, <<"plain", "arc">>}

\* Frames the model follows; the calls of the program stay below it.
StackCeiling == (max_extraction_depth + 1) * MAX_RETRIES + 1

\* A frame of process_new_file(filepath, retry_count): the kind of its
\* file, whether the file is the task's own, where the frame stands, the
\* extracted files still to process, current_depth, and the value of
\* _extraction_depth when the call began.
CFrame(kind, retry_count, own, entry) ==
    [kind |-> kind, retry |-> retry_count, own |-> own, pc |-> "scan",
     todo |-> <<>>, cur |-> 0, entry |-> entry]

CTop == cStack[Len(cStack)]
CSetTop(frame) == [cStack EXCEPT ![Len(cStack)] = frame]
CPopped == SubSeq(cStack, 1, Len(cStack) - 1)

IdleCalls ==
    /\ cStack = <<>>
    /\ cDepth = 0
    /\ cScans = 0
    /\ cExc = FALSE
    /\ cEnd = "none"

InitCalls == IdleCalls

\* The innermost frame returns, leaving _extraction_depth at d.
CReturn(d) ==
    /\ cStack' = CPopped
    /\ cDepth' = d
    /\ cEnd' = IF Len(cStack) = 1 THEN "returned" ELSE cEnd

\* The innermost frame, left as `below`, calls process_new_file.
CCall(below, frame) ==
    /\ Len(cStack) < StackCeiling
    /\ cStack' = Append(CSetTop(below), frame)
    /\ UNCHANGED <<cDepth, cEnd>>

\* The monitor or the startup scan calls process_new_file(filepath).
CSubmit(kind) ==
    /\ cStack = <<>>
    /\ cStack' = <<CFrame(kind, 0, TRUE, cDepth)>>
    /\ cScans' = 0
    /\ UNCHANGED <<cDepth, cExc, cEnd>>
    /\ UNCHANGED otherThanCalls

\* orchestrator.py:112-166: the existence check and the scan through
\* safe_file_operation and retry_operation; scan_file raises on its first
\* k calls and then returns.
CScan ==
    /\ ~cExc /\ cStack # <<>> /\ CTop.pc = "scan"
    /\ \E exists \in BOOLEAN, k \in 0..MAX_RETRIES,
          v \in {"clean", "quarantined", "error"} :
          LET op == safe_file_operation(exists, TRUE, Script(k, v))
              scan_result == op.result
              step == AfterScan(scan_result, CTop.retry)
          IN
          /\ cScans' = IF CTop.own THEN cScans + op.calls ELSE cScans
          /\ CASE step = "return" -> CReturn(cDepth)
               [] step = "retry" ->
                     CCall([CTop EXCEPT !.pc = "return"],
                           CFrame(CTop.kind, CTop.retry + 1, CTop.own, cDepth))
               [] OTHER ->
                     /\ cStack' = CSetTop([CTop EXCEPT !.pc =
                            IF CTop.kind = "arc" THEN "extract" ELSE "organize"])
                     /\ UNCHANGED <<cDepth, cEnd>>
    /\ UNCHANGED cExc
    /\ UNCHANGED otherThanCalls

\* orchestrator.py:168-185: extraction through retry_operation, the depth
\* check, and the entry into the loop.
CExtract ==
    /\ ~cExc /\ cStack # <<>> /\ CTop.pc = "extract"
    /\ \E k \in {0, MAX_RETRIES}, extracted_files \in CallLists :
          LET op == retry_operation(Script(k, "list"))
              current_depth == cDepth
              step == AfterExtract(op.result = None, extracted_files, CTop.retry)
          IN
          CASE step = "return" -> CReturn(cDepth)
            [] step = "retry" ->
                  CCall([CTop EXCEPT !.pc = "return"],
                        CFrame(CTop.kind, CTop.retry + 1, CTop.own, cDepth))
            [] OTHER ->
                  IF DepthLimitReached(current_depth)
                  THEN CReturn(cDepth)
                  ELSE /\ cDepth' = current_depth + 1
                       /\ cStack' = CSetTop([CTop EXCEPT !.pc = "loop",
                                                         !.todo = extracted_files,
                                                         !.cur = current_depth])
                       /\ UNCHANGED cEnd
    /\ UNCHANGED <<cScans, cExc>>
    /\ UNCHANGED otherThanCalls

\* orchestrator.py:187-199: one iteration of the loop, which calls
\* process_new_file(extracted, 0) for a file that exists, or the end of the
\* loop with its `finally`.
CLoop ==
    /\ ~cExc /\ cStack # <<>> /\ CTop.pc = "loop"
    /\ IF CTop.todo = <<>>
       THEN CReturn(CTop.cur)
       ELSE \E exists \in BOOLEAN :
               LET rest == [CTop EXCEPT !.todo = Tail(CTop.todo)] IN
               IF exists
               THEN CCall(rest, CFrame(Head(CTop.todo), 0, FALSE, cDepth))
               ELSE cStack' = CSetTop(rest) /\ UNCHANGED <<cDepth, cEnd>>
    /\ UNCHANGED <<cScans, cExc>>
    /\ UNCHANGED otherThanCalls

\* orchestrator.py:201-211: organize_file gives a path, or None and the
\* task is tried again while retry_count < MAX_RETRIES - 1.
COrganize ==
    /\ ~cExc /\ cStack # <<>> /\ CTop.pc = "organize"
    /\ \E organized \in BOOLEAN :
          IF organized
          THEN cStack' = CSetTop([CTop EXCEPT !.pc = "metadata"])
               /\ UNCHANGED <<cDepth, cEnd>>
          ELSE IF CTop.retry < MAX_RETRIES - 1
               THEN CCall([CTop EXCEPT !.pc = "return"],
                          CFrame(CTop.kind, CTop.retry + 1, CTop.own, cDepth))
               ELSE CReturn(cDepth)
    /\ UNCHANGED <<cScans, cExc>>
    /\ UNCHANGED otherThanCalls

\* orchestrator.py:213-221: the metadata step, after which the call ends.
CMetadata ==
    /\ ~cExc /\ cStack # <<>> /\ CTop.pc = "metadata"
    /\ CReturn(cDepth)
    /\ UNCHANGED <<cScans, cExc>>
    /\ UNCHANGED otherThanCalls

\* The return after a task-level retry (orchestrator.py:161, 211).
CReturnAfterRetry ==
    /\ ~cExc /\ cStack # <<>> /\ CTop.pc = "return"
    /\ CReturn(cDepth)
    /\ UNCHANGED <<cScans, cExc>>
    /\ UNCHANGED otherThanCalls

\* An exception leaves the code of the innermost frame.
CRaise ==
    /\ ~cExc /\ cStack # <<>>
    /\ cExc' = TRUE
    /\ UNCHANGED <<cStack, cDepth, cScans, cEnd>>
    /\ UNCHANGED otherThanCalls

\* A mutated loop: the counter is restored after the loop, without
\* `finally`.
UnwindDepth_NoFinally(frame, current) == current

\* What a frame that an exception passes through leaves in
\* _extraction_depth (orchestrator.py:187-195): inside the `try` of the
\* loop, `finally` writes current_depth back; elsewhere nothing is written.
UnwindDepth(frame, current) ==
    IF frame.pc = "loop" THEN frame.cur ELSE current

\* The exception leaves the innermost frame for its caller; out of the
\* outermost frame it reaches the caller of the task, which logs it.
CUnwind ==
    /\ cExc /\ cStack # <<>>
    /\ cStack' = CPopped
    /\ cDepth' = UnwindDepth(CTop, cDepth)
    /\ cExc' = (Len(cStack) > 1)
    /\ cEnd' = IF Len(cStack) > 1 THEN cEnd
               ELSE IF CTop.pc = "loop" THEN "raised_in_loop" ELSE "raised"
    /\ UNCHANGED cScans
    /\ UNCHANGED otherThanCalls


\* ======================================================================
\* Specifications
\* ======================================================================
InitSpecRetry == InitRetry /\ IdleExtract /\ IdleOrganize /\ IdlePipeline /\ IdleMonitor
    /\ IdleWorkers
    /\ IdleScan
    /\ IdleKeyword
    /\ IdlePlace
    /\ IdleCalls
NextRetry == RetryCall \/ RetryNewOperation
SpecRetry == InitSpecRetry /\ [][NextRetry]_vars

InitSpecExtract == InitExtract /\ IdleRetry /\ IdleOrganize /\ IdlePipeline /\ IdleMonitor
    /\ IdleWorkers
    /\ IdleScan
    /\ IdleKeyword
    /\ IdlePlace
    /\ IdleCalls
NextExtract == ZipEntry \/ TarEntry \/ ExtractReturn
SpecExtract == InitSpecExtract /\ [][NextExtract]_vars

InitSpecOrganize == InitOrganize /\ IdleRetry /\ IdleExtract /\ IdlePipeline /\ IdleMonitor
    /\ IdleWorkers
    /\ IdleScan
    /\ IdleKeyword
    /\ IdlePlace
    /\ IdleCalls
NextOrganize ==
    \/ \E f \in OrgFiles : Drop(f)
    \/ \E f \in OrgFiles : Organize(f)
SpecOrganize == InitSpecOrganize /\ [][NextOrganize]_vars

Init == InitPipeline /\ IdleRetry /\ IdleExtract /\ IdleOrganize /\ IdleMonitor
    /\ IdleWorkers
    /\ IdleScan
    /\ IdleKeyword
    /\ IdlePlace
    /\ IdleCalls
Next ==
    \/ \E path \in WatchPaths : Submit(path)
    \/ Validate
    \/ Scan
    \/ Extract
    \/ Loop
    \/ Organize_step
    \/ Metadata
    \/ ReturnAfterRetry
Spec == Init /\ [][Next]_vars

InitSpecMonitor ==
    InitMonitor /\ IdleRetry /\ IdleExtract /\ IdleOrganize /\ IdlePipeline
    /\ IdleWorkers
    /\ IdleScan
    /\ IdleKeyword
    /\ IdlePlace
    /\ IdleCalls
NextMonitor ==
    \/ ScanFile
    \/ StartMonitor
    \/ \E n \in MNames, exists \in BOOLEAN : FileEvent(n, exists)
SpecMonitor == InitSpecMonitor /\ [][NextMonitor]_vars

InitSpecWorkers ==
    InitWorkers /\ IdleRetry /\ IdleExtract /\ IdleOrganize /\ IdlePipeline
    /\ IdleMonitor
    /\ IdleScan
    /\ IdleKeyword
    /\ IdlePlace
    /\ IdleCalls
NextWorkers ==
    \/ \E w \in Workers : WStart(w)
    \/ \E w \in Workers : WRead(w)
    \/ \E w \in Workers : WSet(w)
    \/ \E w \in Workers : WRestore(w)
SpecWorkers == InitSpecWorkers /\ [][NextWorkers]_vars

InitSpecScan ==
    InitScan /\ IdleRetry /\ IdleExtract /\ IdleOrganize /\ IdlePipeline
    /\ IdleMonitor /\ IdleWorkers
    /\ IdleKeyword
    /\ IdlePlace
    /\ IdleCalls
NextScan == ScanCall \/ ScanNewFile
SpecScan == InitSpecScan /\ [][NextScan]_vars

InitSpecKeyword ==
    InitKeyword /\ IdleRetry /\ IdleExtract /\ IdleOrganize /\ IdlePipeline
    /\ IdleMonitor /\ IdleWorkers /\ IdleScan
    /\ IdlePlace
    /\ IdleCalls
NextKeyword == KeywordCall
SpecKeyword == InitSpecKeyword /\ [][NextKeyword]_vars

InitSpecPlace ==
    InitPlace /\ IdleRetry /\ IdleExtract /\ IdleOrganize /\ IdlePipeline
    /\ IdleMonitor /\ IdleWorkers /\ IdleScan /\ IdleKeyword
    /\ IdleCalls
NextPlace == PlaceCall
SpecPlace == InitSpecPlace /\ [][NextPlace]_vars

InitSpecCalls ==
    InitCalls /\ IdleRetry /\ IdleExtract /\ IdleOrganize /\ IdlePipeline
    /\ IdleMonitor /\ IdleWorkers /\ IdleScan /\ IdleKeyword /\ IdlePlace
CallStep ==
    \/ CScan
    \/ CExtract
    \/ CLoop
    \/ COrganize
    \/ CMetadata
    \/ CReturnAfterRetry
    \/ CUnwind
NextCalls ==
    \/ \E kind \in CallKinds : CSubmit(kind)
    \/ CScan
    \/ CExtract
    \/ CLoop
    \/ COrganize
    \/ CMetadata
    \/ CReturnAfterRetry
    \/ CRaise
    \/ CUnwind
SpecCalls == InitSpecCalls /\ [][NextCalls]_vars
\* The interpreter runs a call that has begun: every step of a task is
\* taken when it can be. Nothing obliges a new task or an exception.
SpecCallsFair == SpecCalls /\ WF_vars(CallStep)


\* ======================================================================
\* Properties
\* ======================================================================

\* ---- C1 (SpecOrganize)
\* C1: for any two files with identical content, whatever their names, once
\* organize_file has placed both (each call returned a path), exactly one
\* file with that content is in the organized tree, both calls returned the
\* same path, and neither source is left in the watch directory.
C1_DuplicateLeavesOneCopy ==
    \A f, g \in OrgFiles :
        ( /\ f # g
          /\ ContentOf(f) = ContentOf(g)
          /\ oRet[f].called /\ oRet[f].ret # NoDest
          /\ oRet[g].called /\ oRet[g].ret # NoDest )
        => /\ Cardinality({e \in oTree : e.content = ContentOf(f)}) = 1
           /\ oRet[f].ret = oRet[g].ret
           /\ f \notin oWatch /\ g \notin oWatch

\* ---- C2 (SpecExtract)
\* C2: an archive entry whose name escapes the extraction root (absolute, or
\* relative with parent segments leading out) never makes the run write a
\* file outside its isolated directory, and the entry is skipped, not
\* extracted.
C2_EscapingEntryIsContained ==
    /\ xOutside = {}
    /\ (xLast.seen /\ Escapes(xLast.entry.filename))
          => (xLast.outcome # "extracted" /\ xLast.wrote = NoPath)

\* ---- C3 (SpecExtract)
\* The entry reached the ratio test: neither limit stopped the loop first.
ReachedRatioTest ==
    /\ xLast.files_before < max_files
    /\ xLast.size_before + xLast.entry.file_size <= max_size

\* declared size / compressed size > max_compression_ratio, compressed size > 0
OverRatio(e) ==
    e.compress_size > 0 /\ e.file_size > max_compression_ratio * e.compress_size

C4_InnermostNeverExpanded ==
    \A r \in pExtractLog : r.arc # PFile("arc", ChainLength)

\* ---- C5 (SpecRetry)
\* The number of leading calls of the operation that raise.
RECURSIVE LeadingRaises(_)
LeadingRaises(script) ==
    IF script = <<>> \/ Head(script) # "raise" THEN 0
    ELSE 1 + LeadingRaises(Tail(script))

\* C5: for an operation that raises on its first k calls and then returns a
\* value, retry_operation returns that value after exactly k + 1 invocations
\* when k < MAX_RETRIES, and returns None after exactly MAX_RETRIES
\* invocations otherwise.
C5_RetryInvocations ==
    rOut.done =>
        LET k == LeadingRaises(rScript) IN
        IF k < MAX_RETRIES
        THEN rOut.result = rScript[k + 1] /\ rOut.calls = k + 1
        ELSE rOut.result = None /\ rOut.calls = MAX_RETRIES

\* Two failures, then success on the third invocation.
C5_Witness ==
    /\ rOut.done
    /\ LeadingRaises(rScript) = MAX_RETRIES - 1
    /\ rOut.calls = MAX_RETRIES
    /\ rOut.result = "clean"

C7_ExactlyOnePlace ==
    \A p \in pDone :
        LET inTree  == \E e \in pTree : e.content = PContent(p.f)
            inQuar  == p \in pQuar
            inPlace == p \in pPresent
        IN  /\ inTree \/ inQuar \/ inPlace
            /\ ~(inTree /\ inQuar)
            /\ ~(inTree /\ inPlace)
            /\ ~(inQuar /\ inPlace)

\* ---- C8 (SpecMonitor)
\* C8: an exception raised while one file is processed never stops the
\* processing of the others: when the startup scan is over, every regular,
\* non-hidden file of the listing has been handed to process_new_file, each
\* raised exception was counted, and the thread that dispatches live events
\* is still running whatever the callbacks raised.
C8_ExceptionDoesNotStopOthers ==
    /\ mAlive
    /\ error_count = Cardinality(mScanRaised)
    /\ mPhase = "live" =>
          \A n \in MNames : mKind[n] = "file" => n \in mScanCalled
    /\ \A i \in 1..Cardinality(Listing) :
          (i < mIdx /\ mKind[SortedSeq(Listing)[i]] = "file")
             => SortedSeq(Listing)[i] \in mScanCalled

\* A file raised during the startup scan and a later file of the listing was
\* still processed; in live mode a callback raised and the callback ran for
\* a later event.
C8_Witness ==
    /\ mPhase = "live" /\ mAlive
    /\ \E n, m \in MNames :
          n < m /\ n \in mScanRaised /\ m \in mScanCalled
    /\ mLiveRaised # {}
    /\ mCalledAfterRaise

\* ---- C9 (Spec)
\* C9: once no task is running, every extraction directory that was made has
\* been removed.
C9_ExtractionDirsRemoved ==
    stack = <<>> => pDirs = {}

\* ---- C10 (Spec)
\* C10: every call of extract_archives gets a directory of its own; no run
\* fails because the directory's name is already taken, not even two runs
\* in the same process within the same second.
C10_NoNameCollision ==
    \A r \in pExtractLog : r.outcome # "collision"


\* ---- C11 (SpecOrganize)
\* C11: after any sequence of organize_file calls, a category directory
\* never holds two files with the same content that came from the same
\* original name, whether placed under the plain hash-prefixed name or under
\* a numeric-suffixed one. (No two files of the model with different
\* original names share both the sanitized name and the content.)
C11_NoSecondCopy ==
    \A f \in OrgFiles :
        \A e1, e2 \in oTree :
            ( /\ e1.content = ContentOf(f) /\ e2.content = ContentOf(f)
              /\ e1.dest.name = sanitize_filename(NameOf(f))
              /\ e2.dest.name = sanitize_filename(NameOf(f))
              /\ e1.dest.dir = e2.dest.dir )
            => e1 = e2

StackPaths == {stack[i].path : i \in 1..Len(stack)}

\* C13: once the scan has returned "quarantined" for a path, the task stops:
\* no frame of process_new_file for that path is at the scan or at any later
\* step again (a frame can only be waiting to return), no extraction was
\* made of it and no metadata recorded for it.
C13_QuarantineStopsTask ==
    \A p \in pQuar :
        /\ \A i \in 1..Len(stack) : stack[i].path = p => stack[i].pc = "return"
        /\ \A r \in pExtractLog : r.arc # p.f
        /\ \A m \in pMeta : m.path # p

\* The scan quarantined a file on a retry of its task: the earlier frames of
\* the task are on the stack, about to return.
C13_Witness ==
    /\ stack # <<>>
    /\ Top.path \in pQuar
    /\ Top.pc = "return"
    /\ Top.path \notin pPresent

\* ---- C14 (Spec)
\* C14: a path for which no scan came back clean is never handed to
\* extraction, organization or metadata recording; process_new_file is not
\* called beyond MAX_RETRIES attempts; and unless the scan quarantined it the
\* file, if it was there when its task started, is still at its original
\* path, and it is not in the organized tree.
C14_ScanErrorAbandonsTask ==
    /\ pWorked \subseteq pCleared
    /\ \A m \in pMeta : m.path \in pCleared
    /\ \A i \in 1..Len(stack) : stack[i].retry < MAX_RETRIES
    /\ \A p \in (pTasks \cup StackPaths) \ (pCleared \cup pQuar) :
          /\ p \in pPresent \/ Started(p, "missing") \in pStart
          /\ \A e \in pTree : e.content # PContent(p.f)

\* The last of MAX_RETRIES attempts has come back without a clean scan: the
\* earlier attempts are returning, nothing was invoked for the file and it
\* is where it was.
C14_Witness ==
    /\ Len(stack) = MAX_RETRIES - 1
    /\ Top.pc = "return"
    /\ Top.retry = MAX_RETRIES - 2
    /\ Top.path \notin (pCleared \cup pQuar \cup pWorked)
    /\ Top.path \in pPresent

\* ---- C15 (Spec)
\* C15: after metadata recording has failed for an organized file (every
\* attempt raised), the file is still in the organized tree, the source has
\* not come back, and no frame of process_new_file runs the scan or the
\* organization for that path again.
C15_MetadataFailureKeepsPlacement ==
    \A m \in pMeta :
        m.raised =>
            /\ \E e \in pTree : e.content = PContent(m.path.f)
            /\ m.path \notin pPresent
            /\ \A i \in 1..Len(stack) :
                  stack[i].path = m.path => stack[i].pc = "return"

\* A task has ended after all attempts of its metadata recording raised.
C15_Witness ==
    \E m \in pMeta :
        /\ m.raised
        /\ m.path \in pDone
        /\ \E e \in pTree : e.content = PContent(m.path.f)

\* ---- C16 (Spec)
\* The archive nesting level of a path: 0 in the watch directory, one more
\* than its archive's level for an extracted file.
NestingLevel(path) ==
    IF path.dir = 0 THEN 0
    ELSE IF path.f.kind = "arc" THEN path.f.level - 1
    ELSE path.f.level

\* The frames that are inside their loop over extracted files.
LoopFrames == {i \in 1..Len(stack) : stack[i].pc = "loop"}

\* C16: in sequential operation the depth counter equals the archive nesting
\* level of the task being processed (one more while a frame stands between
\* two of its extracted files), it is 0 when nothing is processed, it grows
\* along the recursion chain, and it is never above max_extraction_depth.
C16_DepthIsNestingLevel ==
    /\ depth \in 0..max_extraction_depth
    /\ depth = Cardinality(LoopFrames)
    /\ stack = <<>> => depth = 0
    /\ stack # <<>> =>
          depth = NestingLevel(Top.path) + (IF Top.pc = "loop" THEN 1 ELSE 0)
    /\ \A i, j \in LoopFrames : i < j => stack[i].cur < stack[j].cur
    /\ \A r \in pExtractLog : r.depth <= max_extraction_depth

\* The innermost archive the recursion gets to is being processed at depth
\* max_extraction_depth.
C16_Witness ==
    /\ stack # <<>>
    /\ depth = max_extraction_depth
    /\ Top.pc = "extract"
    /\ NestingLevel(Top.path) = max_extraction_depth
    /\ Cardinality(LoopFrames) = max_extraction_depth

\* ---- C17 (SpecWorkers)
\* C17: with two top-level archive tasks processed by concurrent workers,
\* under every interleaving each frame's depth is the task's own nesting
\* level, no task is refused expansion (neither reaches the limit on its
\* own), and when both tasks are over the depth bookkeeping is what it was
\* before they started.
C17_DepthIsPerTask ==
    /\ \A w \in Workers :
          \A i \in 1..Len(wSaved[w]) : wSaved[w][i] = i - 1
    /\ wRefused = {}
    /\ (\A w \in Workers : wPc[w] = "done") => wDepth = 0

\* ---- C18 (SpecMonitor)
\* C18: while a path is accepted by the handler, a further created, moved
\* or closed notification for it does not run the callback again: between
\* two acceptances of a path the callback runs at most once for it, every
\* accepted path has had exactly one run, and an event that finds its path
\* accepted never runs the callback.
C18_OncePerCycle ==
    /\ \A n \in MNames : mCycleCalls[n] <= 1
    /\ \A n \in processed_files : mCycleCalls[n] = 1
    /\ mLast.was_processed => ~mLast.called

\* A repeated notification for an accepted path that still exists came in
\* and was skipped.
C18_Witness ==
    /\ mLast.n \in processed_files
    /\ mLast.was_processed /\ mLast.exists /\ ~mLast.called
    /\ mCycleCalls[mLast.n] = 1

\* ---- C19 (SpecMonitor)
\* C19: an event for a file that exists at its path runs the callback unless a
\* callback for that path is still running. The handler runs the callback
\* inside itself and handles one event at a time, so when an event is
\* handled every earlier callback has returned: every event for an existing
\* file runs the callback.
C19_SuppressionEndsWithProcessing ==
    (mLast.n \in MNames /\ mLast.exists) => mLast.called

\* ---- C20 (SpecMonitor)
\* The files the startup loop passes on: regular files, hidden ones only
\* when process_hidden_files is set.
StartupFiles ==
    {n \in MNames : \/ mKind[n] = "file"
                    \/ (mKind[n] = "hidden" /\ process_hidden_files)}

\* The names passed at startup come in strictly ascending order (so no name
\* comes twice), and nothing is handled live before the startup loop is over.
StartupOrdered ==
    /\ \A i, j \in 1..Len(mScanOrder) : i < j => mScanOrder[i] < mScanOrder[j]
    /\ mPhase = "startup" => (mEvents = 0 /\ mLiveCalled = {})

\* C20 as stated: when the live monitor starts, every regular file of the
\* watch directory, hidden or not, has been passed to process_new_file
\* exactly once, in ascending name order, and no event was handled before.
C20_EveryRegularFileOnce ==
    /\ StartupOrdered
    /\ mPhase = "live" =>
          {mScanOrder[i] : i \in 1..Len(mScanOrder)}
              = {n \in MNames : mKind[n] \in {"file", "hidden"}}

\* C20 amended: when the live monitor starts, every regular file whose name
\* does not start with "." (every regular file when process_hidden_files is
\* set) has been passed to process_new_file exactly once, in ascending name
\* order, and no event was handled before.
C20_EveryVisibleFileOnce ==
    /\ StartupOrdered
    /\ mPhase = "live" =>
          {mScanOrder[i] : i \in 1..Len(mScanOrder)} = StartupFiles

\* The monitor is live after a startup loop that passed two files on and
\* skipped a hidden one, and an event has been handled.
C20_Witness ==
    /\ mPhase = "live" /\ mEvents > 0
    /\ Len(mScanOrder) >= 2
    /\ \E n \in MNames : mKind[n] = "hidden"

\* ---- C21 (Spec)
\* C21: a timeout of an external collaborator is retried. A scan whose
\* clamscan subprocess times out ends in a result that makes process_new_file
\* try the task again while attempts are left; and an archive whose
\* extraction subprocess timed out is not given up after that one attempt:
\* once its task has ended, extract_archives has been invoked on it again.
C21_TimeoutIsRetried ==
    /\ \A file \in ScanFiles, env \in ScanEnvs :
          (scan_file(file, env).ran /\ env.sub = "timeout") =>
             /\ scan_file(file, env).result = "error"
             /\ \A retry_count \in 0..(MAX_RETRIES - 2) :
                   AfterScan(scan_file(file, env).result, retry_count) = "retry"
    /\ \A r \in pExtractLog :
          (r.outcome = "timeout" /\ r.path \notin StackPaths) =>
             \E again \in pExtractLog : again.path = r.path /\ again.again

\* ---- C22 (SpecKeyword)
\* Whether the i-th configured group has a keyword inside the lower-cased
\* name.
GroupMatches(i) ==
    \E keyword \in kConfig[i].keywords : IsSubstring(keyword, LowerName(kName))

C24_CleanScanFirst ==
    /\ \A i \in 1..Len(stack) :
          /\ stack[i].pc \in {"extract", "loop", "organize", "metadata"}
                => stack[i].scan = "clean"
          /\ stack[i].pc = "metadata" =>
                /\ stack[i].org # NoDest
                /\ \E e \in pTree : /\ e.dest = stack[i].org
                                    /\ e.content = PContent(stack[i].path.f)
          /\ stack[i].pc # "metadata" => stack[i].org = NoDest
    /\ pWorked \subseteq pCleared
    /\ \A m \in pMeta :
          /\ m.path \in pWorked
          /\ \E e \in pTree : e.content = PContent(m.path.f)
    /\ \A e \in pTree : \E p \in pCleared : e.content = PContent(p.f)

\* On a retry of its task (the first attempt's scan had ended in an error) a
\* file was scanned clean, organized, and stands at its metadata step.
C24_Witness ==
    /\ Len(stack) >= 2
    /\ Top.pc = "metadata" /\ Top.retry > 0 /\ Top.scan = "clean"
    /\ stack[Len(stack) - 1].scan = "error"
    /\ \E e \in pTree : e.dest = Top.org

\* ---- C25 (Spec)
\* A task that is skipped: its path was missing or unreadable when the task
\* started, or has an ignored extension.
SkippedTask(path) ==
    /\ path \in pTasks
    /\ \/ Started(path, "missing") \in pStart
       \/ Started(path, "unreadable") \in pStart
       \/ IsIgnoredPath(path)

\* C25: for a skipped task scan_file, extract_archives, organize_file and
\* extract_metadata are never invoked, the task is never retried and never
\* gets past its scan step; while it runs no source file, extraction
\* directory, tree file or quarantined file appears or disappears, and it
\* ends after its validation, or after the scan step that follows it.
C25_SkippedTaskTouchesNothing ==
    /\ [](\A p \in pTasks : SkippedTask(p) =>
             /\ p \notin pScanned
             /\ p \notin pCleared
             /\ p \notin pWorked
             /\ \A m \in pMeta : m.path # p
             /\ \A r \in pExtractLog : r.path # p
             /\ \A i \in 1..Len(stack) : stack[i].path = p =>
                   /\ i = 1 /\ Len(stack) = 1
                   /\ stack[i].retry = 0
                   /\ stack[i].pc \in {"validate", "scan"})
    /\ [][(stack # <<>> /\ SkippedTask(stack[1].path)) =>
             /\ UNCHANGED <<pPresent, pDirs, pTree, pQuar>>
             /\ \/ stack' = <<>> /\ pDone' = pDone \cup {stack[1].path}
                \/ /\ Top.pc = "validate"
                   /\ stack' = <<[Top EXCEPT !.pc = "scan"]>>
                   /\ Started(Top.path, "unreadable") \in pStart]_vars

\* The three skipped tasks have ended: a document that was missing, an
\* archive that was unreadable and is still in place, and a partial download.
C25_Witness ==
    /\ stack = <<>>
    /\ \E p \in pDone : Started(p, "missing") \in pStart /\ p \notin pPresent
    /\ \E p \in pDone : /\ Started(p, "unreadable") \in pStart
                        /\ IsArchivePath(p) /\ p \in pPresent
    /\ \E p \in pDone : IsIgnoredPath(p) /\ p \in pPresent
    /\ pScanned = {} /\ pWorked = {} /\ pTree = {} /\ pDirs = {}

\* ---- C26 (Spec)
\* The frames that process_new_file's loop over extracted files has called.
ChildFrames == {i \in 2..Len(stack) : stack[i - 1].pc = "loop"}

\* C26: every call made for an extracted file starts with retry count 0,
\* whatever the retry count of the frame that expanded the archive, and runs
\* at the depth of that frame plus one; and once the tasks have ended, every
\* extracted file (a file in an extraction directory) has been processed.
C26_ExtractedFilesBecomeTasks ==
    /\ \A i \in ChildFrames :
          /\ stack[i].path.dir # 0
          /\ stack[i].retry = 0
          /\ (i = Len(stack) /\ stack[i].pc \in {"validate", "scan", "extract"})
                => depth = stack[i - 1].cur + 1
    /\ \A i \in 2..Len(stack) :
          i \notin ChildFrames => /\ stack[i].path = stack[i - 1].path
                                  /\ stack[i].retry = stack[i - 1].retry + 1
    /\ stack = <<>> =>
          \A p \in pPresent : p.dir # 0 => p \in pScanned

\* The part of C26 about the calls that are made.
C26_ChildCallsStartAfresh ==
    /\ \A i \in ChildFrames :
          /\ stack[i].path.dir # 0
          /\ stack[i].retry = 0
          /\ (i = Len(stack) /\ stack[i].pc \in {"validate", "scan", "extract"})
                => depth = stack[i - 1].cur + 1
    /\ \A i \in 2..Len(stack) :
          i \notin ChildFrames => /\ stack[i].path = stack[i - 1].path
                                  /\ stack[i].retry = stack[i - 1].retry + 1

\* A child call under a parent that expanded its archive on a retry.
C26_ChildUnderRetriedParent ==
    \E i \in ChildFrames : stack[i - 1].retry > 0 /\ stack[i].retry = 0

\* ---- C27 (Spec)
\* The archives expanded at the depth limit: recursion into them is refused.
RefusedArchives ==
    {r \in pExtractLog : r.outcome = "ok" /\ r.depth = max_extraction_depth}

\* C27: once process_new_file has returned for an archive that it expanded
\* below the depth limit, scan_file has been invoked on every file of its
\* extracted list: on the files after a nested archive for which recursion
\* was refused as on those before it. These are all the files at depth at
\* most max_extraction_depth.
C27_RefusalLeavesSiblings ==
    \A r \in pExtractLog :
       (r.outcome = "ok" /\ r.depth < max_extraction_depth /\ r.path \notin StackPaths)
          => \A j \in 1..Len(Members(r.arc)) :
                \E p \in pScanned : p.dir # 0 /\ p.f = Members(r.arc)[j]

\* Recursion into an archive was refused; the document that follows that
\* archive in its parent's extracted list has been processed and organized.
C27_Witness ==
    /\ stack = <<>>
    /\ \E r \in RefusedArchives, q \in pExtractLog :
          /\ q.outcome = "ok" /\ q.depth = r.depth - 1
          /\ Len(Members(q.arc)) = 2
          /\ Members(q.arc)[1] = r.arc
          /\ \E p \in pScanned : /\ p.dir # 0 /\ p.f = Members(q.arc)[2]
                                 /\ p \in pWorked /\ p \notin pPresent
          /\ \A m \in Range(Members(r.arc)) : \A p \in pScanned : p.f # m

\* ---- C30 (Spec)
\* The invocations of extract_archives on an archive that could not be read
\* as one: a zip file that raised on reading, a rar file on which unrar failed.
UnreadableArchives ==
    {r \in pExtractLog : r.outcome \in {"corrupt", "failed"}}

\* C30: an invocation of extract_archives on a corrupted or unreadable
\* archive is the only call of its retry_operation and the only invocation
\* on that path, before and after; none of the archive's members exists as a
\* file, is on the call stack or has been scanned.
C30_CorruptArchiveOnce ==
    \A r \in UnreadableArchives :
       /\ r.calls = 1
       /\ ~r.again
       /\ \A other \in pExtractLog : other.path = r.path => other = r
       /\ \A m \in Range(Members(r.arc)) :
             /\ \A p \in pPresent \cup pScanned \cup pWorked : p.f # m
             /\ \A i \in 1..Len(stack) : stack[i].path.f # m

\* The task of a corrupted zip archive has ended after one invocation, its
\* extraction directory made and the archive still in the watch directory.
C30_Witness ==
    /\ stack = <<>>
    /\ \E r \in UnreadableArchives :
          /\ r.outcome = "corrupt" /\ r.calls = 1
          /\ r.path \in pDone /\ r.path \in pPresent
          /\ pDirs # {}

\* ---- C28 (SpecExtract)
\* The limits part of C28: the counters stay within the limits, and the loop
\* stops exactly at an entry met with the file count at its limit or whose
\* declared size would take the aggregate size over its limit.
C28_LimitsHold ==
    /\ files_extracted <= max_files
    /\ total_size <= max_size
    /\ xLast.seen =>
          /\ xLast.outcome = "stop_files" <=> xLast.files_before >= max_files
          /\ xLast.outcome = "stop_size" <=>
                /\ xLast.files_before < max_files
                /\ xLast.size_before + xLast.entry.file_size > max_size
          /\ xStopped <=> xLast.outcome \in {"stop_files", "stop_size"}
          /\ xStopped => /\ files_extracted = xLast.files_before
                         /\ total_size = xLast.size_before
                         /\ xLast.wrote = NoPath

\* C28: in zip and tar extraction the number of extracted entries never
\* exceeds max_extraction_files and the sum of their declared sizes never
\* exceeds max_extraction_size; the first entry that would exceed a limit
\* stops the extraction and is not extracted; and when the function returns
\* after such a stop, every entry extracted before it is in the returned list.
C28_LimitsAndPartialResult ==
    /\ C28_LimitsHold
    /\ (xStopped /\ xReturned.done) =>
          /\ xOutside = {}
          /\ xInside \subseteq xReturned.files

\* The returned part of C28 for the runs in which no member is written
\* outside the extraction directory.
C28_PartialResultReturned ==
    (xStopped /\ xReturned.done /\ xOutside = {}) =>
        /\ xReturned.files = xInside
        /\ files_extracted > 0 => xReturned.files # {}

\* A run stopped by the size limit returns the entry extracted before.
C28_StoppedRunReturnsFiles ==
    /\ xStopped /\ xReturned.done
    /\ xLast.outcome = "stop_size"
    /\ files_extracted = 1 /\ xReturned.files # {}

\* ---- C29 (SpecExtract)
\* The entry would be rejected by the checks of the loop that reads it: its
\* path is unsafe, or (zip) its compression ratio is excessive.
Rejectable(kind, e) ==
    \/ safe_extract_path(ExtractTo, e.filename) = NoPath
    \/ kind = "zip" /\ OverRatio(e)

\* C29: an entry with an unsafe path or an excessive compression ratio, met
\* while the file count is below its limit, is skipped and the loop goes on
\* to the entries after it, whatever the declared size of the entry.
C29_RejectedEntryDoesNotAbort ==
    (xLast.seen /\ Rejectable(xKind, xLast.entry)
                /\ xLast.files_before < max_files) =>
        /\ xLast.outcome \in {"skip_ratio", "skip_path"}
        /\ ~xStopped

\* The same for the entries whose declared size fits under the size limit.
C29_RejectedSmallEntryDoesNotAbort ==
    (xLast.seen /\ Rejectable(xKind, xLast.entry)
                /\ xLast.files_before < max_files
                /\ xLast.size_before + xLast.entry.file_size <= max_size) =>
        /\ xLast.outcome \in {"skip_ratio", "skip_path"}
        /\ ~xStopped
        /\ files_extracted = xLast.files_before
        /\ total_size = xLast.size_before

\* An entry with an unsafe path stopped the loop through its declared size.
C29_UnsafeEntryStopsLoop ==
    /\ xLast.seen /\ xStopped
    /\ xLast.outcome = "stop_size"
    /\ safe_extract_path(ExtractTo, xLast.entry.filename) = NoPath

\* ---- C31 (SpecRetry)
\* RETRY_DELAY_BASE * RETRY_BACKOFF_MULTIPLIER^(n - 1), by repeated
\* multiplication.
RECURSIVE DelayBefore(_)
DelayBefore(n) ==
    IF n = 1 THEN RETRY_DELAY_BASE
    ELSE RETRY_BACKOFF_MULTIPLIER * DelayBefore(n - 1)

\* C31: retry_operation sleeps once before each attempt n >= 1 that it makes,
\* for RETRY_DELAY_BASE * RETRY_BACKOFF_MULTIPLIER^(n - 1) seconds (1 s and
\* 2 s with the configured constants), and does not sleep after its last
\* attempt; the task-level retry of process_new_file sleeps the same delay
\* before attempt n = retry_count + 1, and after the last attempt, with
\* retry_count = MAX_RETRIES - 1, there is no retry and so no sleep.
C31_BackoffDelays ==
    /\ rOut.done =>
          /\ Len(rOut.slept) = rOut.calls - 1
          /\ \A n \in 1..Len(rOut.slept) : rOut.slept[n] = DelayBefore(n)
          /\ Len(rOut.slept) >= 1 => rOut.slept[1] = 1
          /\ Len(rOut.slept) >= 2 => rOut.slept[2] = 2
    /\ \A retry_count \in 0..(MAX_RETRIES - 2) :
          /\ RetryFrame(<<>>, retry_count).retry = retry_count + 1
          /\ RetryFrame(<<>>, retry_count).waited = DelayBefore(retry_count + 1)
          /\ AfterScan("error", retry_count) = "retry"
    /\ AfterScan("error", MAX_RETRIES - 1) = "return"

\* Every attempt raised: MAX_RETRIES invocations, a sleep before each but
\* the first, none after the last.
C31_Witness ==
    /\ rOut.done
    /\ rOut.result = None
    /\ rOut.calls = MAX_RETRIES
    /\ rOut.slept = <<1, 2>>

\* ---- C32 (SpecPlace)
\* The call reached the destination test and found the plain destination
\* taken by a file that does not hash to the incoming file's digest.
PlaceConflict ==
    /\ gEnv.readable /\ gEnv.mkdir = "ok"
    /\ \E e \in gTree :
          /\ e.dest = PlaceDest(0)
          /\ e.content # gSrc \/ gEnv.dest_hash # "ok"

SlotTaken(k) == \E e \in gTree : e.dest = PlaceDest(k)
FirstFreeSlot(k) ==
    /\ k \in 1..(SuffixCeiling - 1)
    /\ ~SlotTaken(k)
    /\ \A j \in 1..(k - 1) : SlotTaken(j)

\* C32: when the destination exists with different content, every file of
\* the tree is as it was; with a free suffixed name, the only name the call
\* writes to or returns is the one with the lowest free suffix, and it
\* returns that name when the move succeeds; with every suffixed name
\* taken, the call returns None, writes nothing and leaves the source.
C32_FirstFreeSuffix ==
    (gOut.done /\ PlaceConflict) =>
        /\ gTree \subseteq gOut.tree
        /\ \A e \in gOut.tree \ gTree : ~\E old \in gTree : old.dest = e.dest
        /\ \A k \in 1..(SuffixCeiling - 1) : FirstFreeSlot(k) =>
              /\ gOut.tree \ gTree \subseteq
                    {[dest |-> PlaceDest(k), content |-> gSrc]}
              /\ gOut.ret \in {NoDest, PlaceDest(k)}
              /\ gEnv.move = "ok" =>
                    /\ gOut.ret = PlaceDest(k)
                    /\ gOut.src_gone
                    /\ [dest |-> PlaceDest(k), content |-> gSrc] \in gOut.tree
        /\ (\A k \in 1..(SuffixCeiling - 1) : SlotTaken(k)) =>
              /\ gOut.ret = NoDest
              /\ gOut.tree = gTree
              /\ ~gOut.src_gone

\* The first suffixed name is taken as well: the file lands on the second.
C32_Witness ==
    /\ gOut.done /\ PlaceConflict
    /\ SlotTaken(1) /\ FirstFreeSlot(2)
    /\ gOut.ret = PlaceDest(2)
    /\ gOut.src_gone

\* Every suffixed name is taken: the call has failed and changed nothing.
C32_AllSuffixesTaken ==
    /\ gOut.done /\ PlaceConflict
    /\ \A k \in 1..(SuffixCeiling - 1) : SlotTaken(k)
    /\ gOut.ret = NoDest /\ gOut.tree = gTree /\ ~gOut.src_gone

\* ---- C33 (SpecPlace)
\* C33: when organize_file returns a path, a file with the incoming content
\* is at that path and the source path is empty; the call went through the
\* duplicate branch or through the move block, whichever way the move was
\* made.
C33_ReturnedPathIsVerified ==
    (gOut.done /\ gOut.ret # NoDest) =>
        /\ \E e \in gOut.tree : e.dest = gOut.ret /\ e.content = gSrc
        /\ gOut.src_gone
        /\ gOut.branch \in {"duplicate", "move"}
        /\ gOut.branch = "move" =>
              gEnv.move \in {"ok", "perm_fixed", "copy_ok"}
        /\ gOut.branch = "duplicate" =>
              /\ gEnv.dup_remove = "ok"
              /\ gOut.tree = gTree

\* The copy-then-delete fallback has placed the file under a suffixed name.
C33_Witness ==
    /\ gOut.done /\ gOut.ret # NoDest
    /\ gEnv.move = "copy_ok"
    /\ gOut.ret.k = 1
    /\ gOut.src_gone
    /\ \E e \in gOut.tree : e.dest = gOut.ret /\ e.content = gSrc

\* The duplicate branch has returned the existing path.
C33_DuplicateReturned ==
    /\ gOut.done /\ gOut.ret = PlaceDest(0)
    /\ gOut.branch = "duplicate" /\ gOut.src_gone

\* The permission-fix retry has placed the file.
C33_PermissionFixReturned ==
    /\ gOut.done /\ gOut.ret # NoDest
    /\ gEnv.move = "perm_fixed" /\ gOut.src_gone

\* ---- C36 (SpecPlace)
\* C36: when organize_file returns None, the organized tree is what it was
\* before the call and the source is still at its path.
C36_FailureChangesNothing ==
    (gOut.done /\ gOut.ret = NoDest) =>
        /\ gOut.tree = gTree
        /\ ~gOut.src_gone

\* The same for every failure except those that come after a completed
\* copy or move.
C36_FailureBeforeCopyChangesNothing ==
    (gOut.done /\ gOut.ret = NoDest
              /\ gEnv.move \notin {"copy_rmfail", "ok_recreated"}) =>
        /\ gOut.tree = gTree
        /\ ~gOut.src_gone

\* The fallback copied the file and could not delete the source: the call
\* returned None and the tree holds a new file.
C36_FailedFallbackLeftCopy ==
    /\ gOut.done /\ gOut.ret = NoDest
    /\ gEnv.move = "copy_rmfail"
    /\ gOut.tree # gTree
    /\ ~gOut.src_gone

\* ---- C37 (SpecPlace)
\* C37: when the source is gone after a call and the tree has no new file,
\* the call took the duplicate branch and the file at the destination has
\* the content of the source; the duplicate branch is never taken for a
\* destination of other content, or one whose content could not be hashed;
\* a source that is gone after any other branch is in the tree as a new file.
C37_OnlyTrueDuplicatesDeleted ==
    gOut.done =>
        /\ (gOut.src_gone /\ gOut.tree = gTree) =>
              /\ gOut.branch = "duplicate"
              /\ \E e \in gTree : e.dest = gOut.ret /\ e.content = gSrc
        /\ gOut.branch = "duplicate" =>
              /\ gEnv.dest_hash = "ok"
              /\ \E e \in gTree :
                    /\ e.dest.k = 0
                    /\ file_hash(e.content) = file_hash(gSrc)
                    /\ e.content = gSrc
        /\ (gOut.src_gone /\ gOut.branch # "duplicate") =>
              \E e \in gOut.tree \ gTree : e.content = gSrc

\* A duplicate was deleted while a file of other content with the same
\* first eight digits sits under a suffixed name.
C37_Witness ==
    /\ gOut.done /\ gOut.branch = "duplicate"
    /\ gOut.src_gone /\ gOut.tree = gTree
    /\ \E e \in gTree : e.dest = gOut.ret /\ e.content = gSrc
    /\ \E e \in gTree : e.dest.k = 1 /\ e.content # gSrc

\* The destination holds other content with the same first eight digits:
\* the source was moved to a suffixed name, not deleted.
C37_DifferentContentIsMoved ==
    /\ gOut.done /\ gOut.branch = "move"
    /\ \E e \in gTree : e.dest = PlaceDest(0) /\ e.content # gSrc
    /\ HashPrefix(gSrc) = PlaceDest(0).pre
    /\ gOut.src_gone /\ gOut.ret.k = 1

\* ---- C35 (Spec)
\* C35: when extract_metadata has completed without raising for an organized
\* file, process_new_file reports the task as completed, not as a failed
\* metadata step.
C35_SuccessIsReported ==
    \A m \in pMeta : ~m.raised => m.report = "completed"

\* A failed metadata step is reported only for a recording that raised.
C35_FailureReportedOnlyOnFailure ==
    \A m \in pMeta : m.report = "metadata_failed" => m.raised

\* Every metadata step is reported as failed, whether it raised or not.
C35_EveryStepReportedFailed ==
    \A m \in pMeta : m.report = "metadata_failed"

\* A task has ended with a recorded index entry and the report of a failed
\* metadata step.
C35_RecordedButReportedFailed ==
    \E m \in pMeta :
        /\ ~m.raised
        /\ m.report = "metadata_failed"
        /\ m.path \in pDone
        /\ \E e \in pTree : e.content = PContent(m.path.f)

\* ---- C34 (SpecCalls)
\* C34: scan_file is invoked at most MAX_RETRIES times on the file of one
\* top-level task, over all attempts of retry_operation and all task-level
\* retries of process_new_file.
C34_ScanInvocationsBounded ==
    cScans <= MAX_RETRIES

\* Each of the MAX_RETRIES calls of process_new_file for the file runs
\* retry_operation, which invokes scan_file up to MAX_RETRIES times.
C34_ScanInvocationsBoundedBySquare ==
    cScans <= MAX_RETRIES * MAX_RETRIES

\* The task has ended after scan_file raised twice and returned "error" in
\* each call of process_new_file: MAX_RETRIES * MAX_RETRIES invocations.
C34_NineScans ==
    /\ cStack = <<>> /\ cEnd = "returned"
    /\ cExc = FALSE
    /\ cScans = MAX_RETRIES * MAX_RETRIES

\* ---- C40 (SpecCalls)
\* Frames of the stack that are inside their loop over extracted files.
CLoopFrames(n) == {i \in 1..n : cStack[i].pc = "loop"}

\* C40: whenever a call of process_new_file ends, by a return or by an
\* exception that leaves it, _extraction_depth has the value it had when
\* the call began; between tasks the counter is 0, and every top-level call
\* begins at 0, however the task before it ended.
C40_DepthRestoredByEveryCall ==
    /\ [](cStack = <<>> => cDepth = 0)
    /\ [](cStack # <<>> => cStack[1].entry = 0)
    /\ [][Len(cStack') < Len(cStack) => cDepth' = cStack[Len(cStack)].entry]_vars

\* A task has begun at depth 0 after the task before it ended with an
\* exception that came out of the loop over its extracted files.
C40_Witness ==
    /\ cEnd = "raised_in_loop"
    /\ cStack # <<>>
    /\ cStack[1].entry = 0
    /\ cDepth = 0

\* An exception is on its way out of a file extracted from an extracted
\* archive: two frames below it are inside their loops.
C40_ExceptionInNestedFile ==
    /\ cExc
    /\ Cardinality(CLoopFrames(Len(cStack) - 1)) = 2
    /\ cDepth = 2

\* ---- C39 (SpecCallsFair)
\* C39: every call of process_new_file ends: a task that has begun comes to
\* its end, for an archive that holds a copy of itself and for collaborators
\* that fail on each of their calls. At most MAX_RETRIES calls are open for
\* one file, and at most max_extraction_depth frames are inside their loop
\* over extracted files, so the open calls never number more than
\* (max_extraction_depth + 1) * MAX_RETRIES.
C39_EveryCallTerminates ==
    /\ [](\A i \in 1..Len(cStack) : cStack[i].retry < MAX_RETRIES)
    /\ [](Cardinality(CLoopFrames(Len(cStack))) <= max_extraction_depth)
    /\ [](Len(cStack) <= (max_extraction_depth + 1) * MAX_RETRIES)
    /\ (cStack # <<>>) ~> (cStack = <<>>)

\* The deepest call tree: the archive and its copies down to the depth
\* limit, each scanned with an error until its last task-level retry.
C39_Witness ==
    /\ Len(cStack) = (max_extraction_depth + 1) * MAX_RETRIES
    /\ Cardinality(CLoopFrames(Len(cStack))) = max_extraction_depth
    /\ cStack[Len(cStack)].kind = "arc"
    /\ cStack[Len(cStack)].retry = MAX_RETRIES - 1

\* A task whose deepest copy of the archive was refused at the depth limit
\* has ended.
C39_TaskEnded ==
    /\ cStack = <<>>
    /\ cEnd = "returned"
    /\ cScans > MAX_RETRIES

\* ---- C38 (Spec)
\* The archive paths that process_new_file has been called on.
ArchiveCalls ==
    {q \in pTasks \cup {stack[i].path : i \in 1..Len(stack)}
              \cup {e.path : e \in pExtractLog} : q.f.kind = "arc"}

\* C38: an archive that process_new_file was called on is at its original
\* path, unless the scanner quarantined it; it is not in the organized
\* tree, no frame for it stands at the organization or metadata step, and
\* no index entry is written for it. After every extraction, whatever its
\* outcome and at the depth limit too, the archive is at its path.
C38_ArchiveStaysInPlace ==
    /\ \A q \in ArchiveCalls :
          /\ q \in pPresent \/ q \in pQuar
          /\ ~(q \in pPresent /\ q \in pQuar)
          /\ ~\E t \in pTree : t.content = PContent(q.f)
          /\ \A i \in 1..Len(stack) :
                stack[i].path = q => stack[i].pc \notin {"organize", "metadata"}
          /\ \A m \in pMeta : m.path # q
    /\ \A e \in pExtractLog :
          /\ e.path \in pPresent
          /\ e.path \notin pQuar

\* The task of the watched archive has ended: one archive was extracted,
\* one could not be read or collided or raised, one was cut off at the depth
\* limit; all of them are at their paths, and an extracted document has
\* been organized.
C38_Witness ==
    /\ stack = <<>>
    /\ \E e \in pExtractLog : e.outcome = "ok" /\ e.depth < max_extraction_depth
    /\ \E e \in pExtractLog : e.outcome = "ok" /\ e.depth = max_extraction_depth
    /\ \A e \in pExtractLog : e.path \in pPresent
    /\ \E t \in pTree, q \in pWorked :
          /\ q.dir # 0 /\ q.f.kind = "plain"
          /\ t.content = PContent(q.f)
          /\ q \notin pPresent

\* An extraction that gave nothing has left the archive at its path.
C38_FailedExtractionLeavesArchive ==
    /\ stack = <<>>
    /\ \E e \in pExtractLog :
          /\ e.outcome \in {"corrupt", "failed", "timeout", "collision", "raised"}
          /\ e.path \in pPresent

====
